---------------------------- MODULE Spec2Model ----------------------------
(***************************************************************************)
(* TAP3Loader: TAPValidator / RAPFile (src/TAPValidator.cpp).              *)
(*                                                                         *)
(* One TAPValidator validates one decoded DataInterChange.  The decoded    *)
(* TAP is a tree of optional children; an optional child is modelled as a  *)
(* pointer: NULL (the empty tuple) or Ptr(v) (a one-element tuple).        *)
(* Dereferencing NULL, or failing an assert, ends the run in pc="crashed". *)
(***************************************************************************)
EXTENDS Integers, Sequences, FiniteSets, TLC

\* ------------------------------------------------------------------ bounds
\* longest currencyConversionInfo list that is enumerated
MaxCcy == 3
\* longest callEventDetails list that is enumerated
MaxCalls == 2
MaxValidateCalls == 2

\* ---------------------------------------------------------------- pointers
NULL == <<>>
Ptr(v) == <<v>>
Deref(p) == p[1]

\* sequences over S of length 0..n
SeqsUpTo(S, n) == UNION {[1..k -> S] : k \in 0..n}

Min(S) == CHOOSE x \in S : \A y \in S : x <= y

\* -------------------------------------------------------- result constants
\* TAPValidationResult
TAP_VALID == "TAP_VALID"
FATAL_ERROR == "FATAL_ERROR"
VALIDATION_IMPOSSIBLE == "VALIDATION_IMPOSSIBLE"
\* Validate has not returned
NO_RESULT == "NO_RESULT"

\* return codes of the RAP emitter (TAP_Constants.h)
TL_OK == 0
TL_FILEERROR == -2
TL_DECODEERROR == -3
\* status the catalogue row is written with
OUTFILE_CREATED_AND_SENT == "OUTFILE_CREATED_AND_SENT"

\* first tag of each structure's codec descriptor: (tag number << 2) | class,
\* class APPLICATION = 1
asn_DEF_tags0(name) ==
  CASE name = "TransferBatch" -> 1 * 4 + 1
    [] name = "BatchControlInfo" -> 4 * 4 + 1
    [] name = "AccountingInfo" -> 5 * 4 + 1
    [] name = "NetworkInfo" -> 6 * 4 + 1
    [] name = "AuditControlInfo" -> 15 * 4 + 1
    [] name = "CurrencyConversionList" -> 80 * 4 + 1
    [] name = "CallEventDetailsCount" -> 43 * 4 + 1

\* tags[0] >> 2
TagNumber(name) == asn_DEF_tags0(name) \div 4


\* ------------------------------------------------------ the decoded TAP tree
\* DateTimeLong: both members are optional pointers
TimeStamp == [localTimeStamp |-> Ptr("20161101120000"), utcTimeOffset |-> Ptr("+0300")]
TimeStampNoLocal == [localTimeStamp |-> NULL, utcTimeOffset |-> Ptr("+0300")]

BatchControlInfos ==
  [sender : {NULL, Ptr("OPA")},
   recipient : {NULL, Ptr("OPB")},
   fileSequenceNumber : {NULL, Ptr("00042")},
   fileAvailableTimeStamp : {NULL, Ptr(TimeStampNoLocal), Ptr(TimeStamp)},
   fileCreationTimeStamp : {Ptr(TimeStamp)},
   transferCutOffTimeStamp : {NULL, Ptr(TimeStamp)},
   fileTypeIndicator : {NULL, Ptr("T")},
   operatorSpecInformation : {Ptr("osi")},
   rapFileSequenceNumber : {Ptr("00007")},
   releaseVersionNumber : {Ptr(12)},
   specificationVersionNumber : {NULL, Ptr(3)}]

ValidBCI ==
  [sender |-> Ptr("OPA"), recipient |-> Ptr("OPB"), fileSequenceNumber |-> Ptr("00042"),
   fileAvailableTimeStamp |-> Ptr(TimeStamp), fileCreationTimeStamp |-> Ptr(TimeStamp),
   transferCutOffTimeStamp |-> Ptr(TimeStamp), fileTypeIndicator |-> NULL,
   operatorSpecInformation |-> Ptr("osi"), rapFileSequenceNumber |-> Ptr("00007"),
   releaseVersionNumber |-> Ptr(12), specificationVersionNumber |-> Ptr(3)]

ExchangeRateCodes == {1, 2}

\* every combination of present and absent fields under the first code,
\* and the complete entry under each other code
CurrencyConversions ==
  [exchangeRateCode : {NULL, Ptr(1)},
   numberOfDecimalPlaces : {NULL, Ptr(5)},
   exchangeRate : {NULL, Ptr(10000)}]
  \cup [exchangeRateCode : {Ptr(c) : c \in ExchangeRateCodes},
        numberOfDecimalPlaces : {Ptr(5)},
        exchangeRate : {Ptr(10000)}]

ValidCurrencyConversion ==
  [exchangeRateCode |-> Ptr(1), numberOfDecimalPlaces |-> Ptr(5), exchangeRate |-> Ptr(10000)]

CurrencyConversionLists == SeqsUpTo(CurrencyConversions, MaxCcy)

ValidAI ==
  [localCurrency |-> Ptr("RUB"), tapCurrency |-> Ptr("SDR"), tapDecimalPlaces |-> Ptr(2),
   taxation |-> Ptr("taxation"), discounting |-> Ptr("discounting"),
   currencyConversionInfo |-> Ptr(<<ValidCurrencyConversion>>)]

AccountingInfoHeads ==
  [localCurrency : {NULL, Ptr("RUB")}, tapCurrency : {Ptr("SDR")},
   tapDecimalPlaces : {NULL, Ptr(2)},
   taxation : {NULL, Ptr("taxation")}, discounting : {NULL, Ptr("discounting")},
   currencyConversionInfo : {NULL, Ptr(<<>>), Ptr(<<ValidCurrencyConversion>>)}]

NetworkInfos ==
  [utcTimeOffsetInfo : {NULL, Ptr("utc")}, recEntityInfo : {NULL, Ptr("rec")}]

ValidNI == [utcTimeOffsetInfo |-> Ptr("utc"), recEntityInfo |-> Ptr("rec")]

AuditControlInfos ==
  [callEventDetailsCount : {NULL} \cup {Ptr(n) : n \in 0..MaxCalls},
   earliestCallTimeStamp : {Ptr(TimeStamp)}, latestCallTimeStamp : {Ptr(TimeStamp)},
   operatorSpecInformation : {Ptr("osi")}, totalAdvisedChargeValueList : {Ptr("tacv")},
   totalCharge : {NULL, Ptr(500)}, totalChargeRefund : {Ptr(0)},
   totalDiscountRefund : {Ptr(0)}, totalDiscountValue : {NULL, Ptr(0)},
   totalTaxRefund : {Ptr(0)}, totalTaxValue : {NULL, Ptr(0)}]

ValidACI(n) ==
  [callEventDetailsCount |-> Ptr(n),
   earliestCallTimeStamp |-> Ptr(TimeStamp), latestCallTimeStamp |-> Ptr(TimeStamp),
   operatorSpecInformation |-> Ptr("osi"), totalAdvisedChargeValueList |-> Ptr("tacv"),
   totalCharge |-> Ptr(500), totalChargeRefund |-> Ptr(0),
   totalDiscountRefund |-> Ptr(0), totalDiscountValue |-> Ptr(0),
   totalTaxRefund |-> Ptr(0), totalTaxValue |-> Ptr(0)]

\* ChargeInformation: optional tax and discount references and a chargeDetailList
ChargeInfo(tax, disc, details) ==
  [taxInformation |-> tax, discountInformation |-> disc, chargeDetailList |-> details]
ChargeDetails(charges) == Ptr([i \in 1..Len(charges) |-> [charge |-> charges[i]]])

BasicServiceUsed(cil) == [chargeInformationList |-> cil]

\* CallEventDetail: a union; the member that is not selected is left NULL
MoCall(bsul) ==
  [present |-> "mobileOriginatedCall", basicServiceUsedList |-> bsul, gprsServiceUsed |-> NULL]
MtCall(bsul) ==
  [present |-> "mobileTerminatedCall", basicServiceUsedList |-> bsul, gprsServiceUsed |-> NULL]
GprsCall(gsu) ==
  [present |-> "gprsCall", basicServiceUsedList |-> NULL, gprsServiceUsed |-> gsu]
OtherCall ==
  [present |-> "supplServiceEvent", basicServiceUsedList |-> NULL, gprsServiceUsed |-> NULL]

PlainCall == GprsCall(Ptr([chargeInformationList |->
                 Ptr(<<ChargeInfo(NULL, NULL, ChargeDetails(<<Ptr(0)>>))>>)]))
TaxCall == MoCall(Ptr(<<BasicServiceUsed(
                 Ptr(<<ChargeInfo(Ptr("tax"), NULL, ChargeDetails(<<Ptr(0)>>))>>))>>))
DiscountCall == MtCall(Ptr(<<BasicServiceUsed(
                 Ptr(<<ChargeInfo(NULL, Ptr("disc"), ChargeDetails(<<Ptr(0)>>))>>))>>))
PositiveCall == GprsCall(Ptr([chargeInformationList |->
                 Ptr(<<ChargeInfo(NULL, NULL, ChargeDetails(<<Ptr(0), Ptr(500)>>))>>)]))
NegativeCall == MoCall(Ptr(<<BasicServiceUsed(
                 Ptr(<<ChargeInfo(NULL, NULL, ChargeDetails(<<Ptr(-5)>>))>>))>>))
NoServiceListCall == MoCall(NULL)
NoChargeListCall == MtCall(Ptr(<<BasicServiceUsed(NULL)>>))
NoGprsServiceCall == GprsCall(NULL)
NoDetailListCall == MoCall(Ptr(<<BasicServiceUsed(
                 Ptr(<<ChargeInfo(NULL, NULL, NULL)>>))>>))

CallSamples ==
  {PlainCall, TaxCall, DiscountCall, PositiveCall, NegativeCall, OtherCall,
   NoServiceListCall, NoChargeListCall, NoGprsServiceCall, NoDetailListCall}

CallEventDetailLists == {NULL} \cup {Ptr(l) : l \in SeqsUpTo(CallSamples, MaxCalls)}

\* number of call events of a callEventDetails pointer, an absent list counted empty
CallCount(ced) == IF ced = NULL THEN 0 ELSE Len(Deref(ced))

TransferBatch(bci, ai, ni, aci, ced) ==
  [batchControlInfo |-> bci, accountingInfo |-> ai, networkInfo |-> ni,
   auditControlInfo |-> aci, callEventDetails |-> ced]

EmptyTransferBatch == TransferBatch(NULL, NULL, NULL, NULL, NULL)

Notifications ==
  [sender : {NULL, Ptr("OPA")}, recipient : {NULL, Ptr("OPB")},
   fileSequenceNumber : {NULL, Ptr("00042")}]

EmptyNotification == [sender |-> NULL, recipient |-> NULL, fileSequenceNumber |-> NULL]

\* DataInterChange: a union of transferBatch and notification
DataInterChange(present, tb, nt) ==
  [present |-> present, transferBatch |-> tb, notification |-> nt]

\* the DataInterChange that holds transfer batch tb
BatchInput(tb) == DataInterChange("transferBatch", tb, EmptyNotification)

\* ------------------------------------------------------------- error codes
TF_BATCH_BATCH_CONTROL_INFO_MISSING == "TF_BATCH_BATCH_CONTROL_INFO_MISSING"
TF_BATCH_ACCOUNTING_INFO_MISSING == "TF_BATCH_ACCOUNTING_INFO_MISSING"
TF_BATCH_NETWORK_INFO_MISSING == "TF_BATCH_NETWORK_INFO_MISSING"
TF_BATCH_AUDIT_CONTROL_INFO_MISSING == "TF_BATCH_AUDIT_CONTROL_INFO_MISSING"
BATCH_CTRL_FILE_AVAIL_TIMESTAMP_MISSING == "BATCH_CTRL_FILE_AVAIL_TIMESTAMP_MISSING"
BATCH_CTRL_SPEC_VERSION_MISSING == "BATCH_CTRL_SPEC_VERSION_MISSING"
BATCH_CTRL_TRANSFER_CUTOFF_MISSING == "BATCH_CTRL_TRANSFER_CUTOFF_MISSING"
ACCOUNTING_LOCAL_CURRENCY_MISSING == "ACCOUNTING_LOCAL_CURRENCY_MISSING"
ACCOUNTING_TAP_DECIMAL_PLACES_MISSING == "ACCOUNTING_TAP_DECIMAL_PLACES_MISSING"
ACCOUNTING_TAXATION_MISSING == "ACCOUNTING_TAXATION_MISSING"
ACCOUNTING_DISCOUNTING_MISSING == "ACCOUNTING_DISCOUNTING_MISSING"
ACCOUNTING_CURRENCY_CONVERSION_MISSING == "ACCOUNTING_CURRENCY_CONVERSION_MISSING"
CURRENCY_CONVERSION_EXRATE_CODE_MISSING == "CURRENCY_CONVERSION_EXRATE_CODE_MISSING"
CURRENCY_CONVERSION_NUM_OF_DEC_PLACES_MISSING == "CURRENCY_CONVERSION_NUM_OF_DEC_PLACES_MISSING"
CURRENCY_CONVERSION_EXCHANGE_RATE_MISSING == "CURRENCY_CONVERSION_EXCHANGE_RATE_MISSING"
CURRENCY_CONVERSION_EXRATE_CODE_DUPLICATION == "CURRENCY_CONVERSION_EXRATE_CODE_DUPLICATION"
NETWORK_UTC_TIMEOFFSET_MISSING == "NETWORK_UTC_TIMEOFFSET_MISSING"
NETWORK_REC_ENTITY_MISSING == "NETWORK_REC_ENTITY_MISSING"
AUDIT_CTRL_TOTAL_CHARGE_MISSING == "AUDIT_CTRL_TOTAL_CHARGE_MISSING"
AUDIT_CTRL_TOTAL_TAX_VALUE_MISSING == "AUDIT_CTRL_TOTAL_TAX_VALUE_MISSING"
AUDIT_CTRL_TOTAL_DISCOUNT_MISSING == "AUDIT_CTRL_TOTAL_DISCOUNT_MISSING"
AUDIT_CTRL_CALL_COUNT_MISSING == "AUDIT_CTRL_CALL_COUNT_MISSING"
CALL_COUNT_MISMATCH == "CALL_COUNT_MISMATCH"

\* ------------------------------------------------- 64-bit integer encoding
\* A long long is held as its eight two's-complement octets, most
\* significant first, so that the width of the type is part of the model.
Int64Zero == <<0, 0, 0, 0, 0, 0, 0, 0>>
IsZero64(v) == \A k \in 1..8 : v[k] = 0
IsNegative64(v) == v[1] >= 128
IsPositive64(v) == ~IsNegative64(v) /\ ~IsZero64(v)
\* value & 0xFF
LowByte64(v) == v[8]
\* value >>= 8 on a signed value: the sign is shifted in
ShiftRight8(v) == [k \in 1..8 |-> IF k = 1 THEN (IF v[1] >= 128 THEN 255 ELSE 0) ELSE v[k - 1]]

\* the for loop: buf is the scratch (indices 0..7), i the index being
\* written; yields the scratch, the remaining value and the final i
\* (-1 when the loop ran off the front without the value reaching zero)
RECURSIVE FillScratch(_, _, _)
FillScratch(buf, value, i) ==
  LET b == [buf EXCEPT ![i] = LowByte64(value)]
      v == ShiftRight8(value)
  IN IF IsZero64(v) THEN [buf |-> b, value |-> v, i |-> i]
     ELSE IF i = 0 THEN [buf |-> b, value |-> v, i |-> -1]
     ELSE FillScratch(b, v, i - 1)

\* the scratch before the loop: eight octets not yet written (-1)
UninitScratch == [k \in 0..7 |-> -1]

\* buf[k]; below the scratch the octet read is whatever the stack
\* holds there (garbage)
ScratchAt(buf, k, garbage) == IF k \in 0..7 THEN buf[k] ELSE garbage

\* OctetString_fromInt64 without the sign octet: buf[--i] = 0 never done
OctetString_fromInt64_NoSignOctet(value, garbage) ==
  LET f == FillScratch(UninitScratch, value, 7)
  IN [thrown |-> FALSE, i |-> f.i,
      octets |-> [k \in 1..(8 - f.i) |-> ScratchAt(f.buf, f.i + k - 1, garbage)],
      length |-> 8 - f.i,
      outside |-> {k \in {f.i} : k \notin 0..7}]

\* OctetString_fromInt64: thrown, or the octets handed to OCTET_STRING_fromBuf
\* (buf + i, 8 - i) and the returned length; outside lists the scratch
\* indices outside 0..7 that were read or written
OctetString_fromInt64(value, garbage) ==
  LET f == FillScratch(UninitScratch, value, 7)
      lead == ScratchAt(f.buf, f.i, garbage)
      pad == lead >= 128
      i == IF pad THEN f.i - 1 ELSE f.i
      at(k) == IF pad /\ k = i THEN 0 ELSE ScratchAt(f.buf, k, garbage)
  IN IF f.i = 0 /\ IsPositive64(f.value)
       THEN [thrown |-> TRUE, i |-> f.i, octets |-> <<>>, length |-> 0, outside |-> {}]
     ELSE IF pad /\ f.i = 0
       THEN [thrown |-> TRUE, i |-> f.i, octets |-> <<>>, length |-> 0, outside |-> {}]
     ELSE [thrown |-> FALSE, i |-> i,
           octets |-> [k \in 1..(8 - i) |-> at(i + k - 1)],
           length |-> 8 - i,
           outside |-> {k \in {f.i, i} : k \notin 0..7}]

\* ------------------------------------------------------ predicate evaluators
SEGV == "segv"

\* first decisive entry of a sequence of "T" / "F" / SEGV outcomes, taken in
\* the order the loops visit them: a walk returns true at the first match
\* and faults at the first NULL list it dereferences
FirstOutcome(outs) ==
  LET hits == {k \in 1..Len(outs) : outs[k] # "F"}
  IN IF hits = {} THEN "F" ELSE outs[Min(hits)]

RECURSIVE Flatten(_)
Flatten(ss) == IF ss = <<>> THEN <<>> ELSE Head(ss) \o Flatten(Tail(ss))

\* the ChargeInformation records visited through one chargeInformationList
\* pointer, each as Ptr(record); a NULL list is visited as the fault FAULT
FAULT == NULL
ChargeInfosOf(cil) ==
  IF cil = NULL THEN <<FAULT>> ELSE [k \in 1..Len(Deref(cil)) |-> Ptr(Deref(cil)[k])]

\* what the loops over one call event visit, in order
CallVisits(callEvent) ==
  IF callEvent.present = "mobileOriginatedCall" THEN
    IF callEvent.basicServiceUsedList = NULL THEN <<FAULT>>
    ELSE LET l == Deref(callEvent.basicServiceUsedList)
         IN Flatten([k \in 1..Len(l) |-> ChargeInfosOf(l[k].chargeInformationList)])
  ELSE IF callEvent.present = "mobileTerminatedCall" THEN
    IF callEvent.basicServiceUsedList = NULL THEN <<FAULT>>
    ELSE LET l == Deref(callEvent.basicServiceUsedList)
         IN Flatten([k \in 1..Len(l) |-> ChargeInfosOf(l[k].chargeInformationList)])
  ELSE IF callEvent.present = "gprsCall" THEN
    IF callEvent.gprsServiceUsed = NULL THEN <<FAULT>>
    ELSE ChargeInfosOf(Deref(callEvent.gprsServiceUsed).chargeInformationList)
  ELSE <<>>

BatchVisits(tb) ==
  IF tb.callEventDetails = NULL THEN <<FAULT>>
  ELSE LET l == Deref(tb.callEventDetails)
       IN Flatten([k \in 1..Len(l) |-> CallVisits(l[k])])

BatchContainsTaxes(tb) ==
  LET v == BatchVisits(tb)
  IN FirstOutcome([k \in 1..Len(v) |->
       IF v[k] = FAULT THEN SEGV
       ELSE IF Deref(v[k]).taxInformation # NULL THEN "T" ELSE "F"])

BatchContainsDiscounts(tb) ==
  LET v == BatchVisits(tb)
  IN FirstOutcome([k \in 1..Len(v) |->
       IF v[k] = FAULT THEN SEGV
       ELSE IF Deref(v[k]).discountInformation # NULL THEN "T" ELSE "F"])

\* charge / 10^tapDecimalPlaces > 0: the divisor is a positive power of ten
\* for every tapDecimalPlaces that is enumerated, so the sign is the charge's
ChargeInfoContainsPositiveCharges(tb, chargeInfo) ==
  IF tb.accountingInfo = NULL \/ Deref(tb.accountingInfo).tapDecimalPlaces = NULL THEN SEGV
  ELSE IF chargeInfo.chargeDetailList = NULL THEN SEGV
  ELSE LET l == Deref(chargeInfo.chargeDetailList)
       IN FirstOutcome([k \in 1..Len(l) |->
            IF l[k].charge = NULL THEN SEGV
            ELSE IF Deref(l[k].charge) > 0 THEN "T" ELSE "F"])

BatchContainsPositiveCharges(tb) ==
  LET v == BatchVisits(tb)
  IN FirstOutcome([k \in 1..Len(v) |->
       IF v[k] = FAULT THEN SEGV ELSE ChargeInfoContainsPositiveCharges(tb, Deref(v[k]))])

\* ------------------------------------------------------------------- state
VARIABLES
  tap,               \* the decoded DataInterChange handed to Validate
  pc,                \* the function about to run
  result,            \* what Validate returned
  crash,             \* "none", or how the process died: "assert" / "segv"
  m_rapFileID,       \* TAPValidator::m_rapFileID
  m_rapSequenceNum,  \* TAPValidator::m_rapSequenceNum
  validators,        \* the section validators entered, in order
  call,              \* arguments of the Create*RAPFile call being made
  returnDetail,      \* the ReturnDetail under construction (NULL: none)
  returnBatch,       \* the ReturnBatch under construction (NULL: none)
  args,              \* arguments handed to RAPFile::CreateRAPFile
  alloc,             \* what the catalogue allocation delivered
  loadResult,        \* CreateRAPFile's loadResult
  steps,             \* the emitter steps taken, in order
  catalogue,         \* rows loaded into the RAP catalogue
  disk,              \* files in the output directory
  ftp,               \* uploads attempted
  ftpSetting,        \* the FTP setting read for the roaming hub
  freed,             \* TAP-owned children released by ASN_STRUCT_FREE
  octetString,       \* a call of OctetString_fromInt64: its value and outcome
  validateCalls      \* Validate calls this TAPValidator completed before this one

vars == <<tap, pc, result, crash, m_rapFileID, m_rapSequenceNum, validators, call,
          returnDetail, returnBatch, args, alloc, loadResult, steps, catalogue,
          disk, ftp, ftpSetting, freed, octetString, validateCalls>>

validatorVars == <<tap, m_rapFileID, m_rapSequenceNum, returnDetail, returnBatch,
                   args, alloc, loadResult, steps, catalogue, disk, ftp,
                   ftpSetting, freed,
                   octetString, validateCalls>>

m_transferBatch == tap.transferBatch
m_notification == tap.notification

NoCall == [errorCode |-> "", level3item |-> NULL]
NoArgs == [sender |-> "", recipient |-> "", tapAvailableStamp |-> "", fileTypeIndicator |-> ""]
NoAlloc == [filename |-> "", rapSequenceNum |-> "", roamingHubName |-> "", rapFileID |-> 0]
NoOctetString == [value |-> Int64Zero, outcome |-> NULL]

\* the state of a TAPValidator after construction, no input decoded yet
Constructed ==
  /\ result = NO_RESULT
  /\ crash = "none"
  /\ m_rapFileID = 0
  /\ m_rapSequenceNum = ""
  /\ validators = <<>>
  /\ call = NoCall
  /\ returnDetail = NULL
  /\ returnBatch = NULL
  /\ args = NoArgs
  /\ alloc = NoAlloc
  /\ loadResult = 0
  /\ steps = <<>>
  /\ catalogue = <<>>
  /\ disk = <<>>
  /\ ftp = <<>>
  /\ ftpSetting = NULL
  /\ freed = {}
  /\ validateCalls = 0

\* ---- the inputs that are enumerated: each family varies some sections in
\* ---- full and holds the others at a value that passes

\* every batchControlInfo, with every combination of missing sections
HeaderInputs ==
  \E b \in {NULL} \cup {Ptr(x) : x \in BatchControlInfos},
     a \in {NULL, Ptr(ValidAI)},
     n \in {NULL, Ptr(ValidNI)},
     c \in {NULL, Ptr(ValidACI(1))} :
    tap = BatchInput(TransferBatch(b, a, n, c, Ptr(<<PlainCall>>)))

\* every combination of accounting groups against a few call lists
AccountingInputs ==
  \E a \in AccountingInfoHeads,
     l \in {NULL, Ptr(<<>>), Ptr(<<TaxCall>>), Ptr(<<DiscountCall>>),
            Ptr(<<PositiveCall>>), Ptr(<<PlainCall, NegativeCall>>)} :
    tap = BatchInput(TransferBatch(Ptr(ValidBCI), Ptr(a), Ptr(ValidNI),
                                   Ptr(ValidACI(CallCount(l))), l))

\* missing accounting groups against every call list
CallInputs ==
  \E t \in {NULL, Ptr("taxation")}, d \in {NULL, Ptr("discounting")},
     cc \in {NULL, Ptr(<<ValidCurrencyConversion>>)},
     l \in CallEventDetailLists :
    tap = BatchInput(TransferBatch(Ptr(ValidBCI),
                        Ptr([ValidAI EXCEPT !.taxation = t, !.discounting = d,
                                            !.currencyConversionInfo = cc]),
                        Ptr(ValidNI), Ptr(ValidACI(CallCount(l))), l))

\* every currency conversion list, without and with a positive charge
CurrencyInputs ==
  \E cc \in CurrencyConversionLists, l \in {Ptr(<<>>), Ptr(<<PositiveCall>>)} :
    tap = BatchInput(TransferBatch(Ptr(ValidBCI),
                        Ptr([ValidAI EXCEPT !.currencyConversionInfo = Ptr(cc)]),
                        Ptr(ValidNI), Ptr(ValidACI(CallCount(l))), l))

\* every networkInfo and auditControlInfo against call lists of each length
AuditInputs ==
  \E n \in NetworkInfos, c \in AuditControlInfos,
     l \in {NULL} \cup {Ptr([i \in 1..k |-> PlainCall]) : k \in 0..MaxCalls} :
    tap = BatchInput(TransferBatch(Ptr(ValidBCI), Ptr(ValidAI), Ptr(n), Ptr(c), l))

\* violations in several sections at once
MixedInputs ==
  \E b \in {ValidBCI, [ValidBCI EXCEPT !.recipient = NULL],
            [ValidBCI EXCEPT !.specificationVersionNumber = NULL],
            [ValidBCI EXCEPT !.transferCutOffTimeStamp = NULL]},
     a \in {ValidAI, [ValidAI EXCEPT !.tapDecimalPlaces = NULL],
            [ValidAI EXCEPT !.taxation = NULL],
            [ValidAI EXCEPT !.currencyConversionInfo =
                              Ptr(<<ValidCurrencyConversion, ValidCurrencyConversion>>)]},
     n \in NetworkInfos,
     c \in {ValidACI(1), ValidACI(0), [ValidACI(1) EXCEPT !.totalTaxValue = NULL]} :
    tap = BatchInput(TransferBatch(Ptr(b), Ptr(a), Ptr(n), Ptr(c), Ptr(<<TaxCall>>)))

NotificationInputs ==
  \E nt \in Notifications : tap = DataInterChange("notification", EmptyTransferBatch, nt)

OtherInputs == tap = DataInterChange("NOTHING", EmptyTransferBatch, EmptyNotification)

TAPInputs ==
  \/ HeaderInputs
  \/ AccountingInputs
  \/ CallInputs
  \/ CurrencyInputs
  \/ AuditInputs
  \/ MixedInputs
  \/ NotificationInputs
  \/ OtherInputs

Init ==
  /\ TAPInputs
  /\ pc = "Validate"
  /\ octetString = NoOctetString
  /\ Constructed

\* Validate returns r
Return(r) == /\ pc' = "done" /\ result' = r /\ UNCHANGED <<crash, call>>

\* the process dies: an assert fails or a NULL pointer is dereferenced
Crash(kinds) == /\ pc' = "crashed" /\ crash' \in kinds /\ UNCHANGED <<result, call>>

\* a validator calls Create<scope>RAPFile(message, errorCode[, level3item])
CallCreate(function, errorCode, level3item) ==
  /\ pc' = function
  /\ call' = [errorCode |-> errorCode, level3item |-> level3item]
  /\ UNCHANGED <<result, crash>>

\* control passes to the next function
Goto(function) == /\ pc' = function /\ UNCHANGED <<result, crash, call>>

\* Validate clearing the RAP file id and sequence number on entry
Validate_ClearsRapFile ==
  /\ pc = "Validate"
  /\ IF tap.present = "transferBatch" THEN Goto("ValidateTransferBatch")
     ELSE IF tap.present = "notification" THEN Goto("ValidateNotification")
     ELSE Return(VALIDATION_IMPOSSIBLE)
  /\ m_rapFileID' = 0
  /\ m_rapSequenceNum' = ""
  /\ UNCHANGED <<tap, validators, returnDetail, returnBatch, args, alloc, loadResult, steps,
                 catalogue, disk, ftp, ftpSetting, freed, octetString, validateCalls>>

\* ---------------------------------------------------------------- validators
Validate ==
  /\ pc = "Validate"
  /\ IF tap.present = "transferBatch" THEN Goto("ValidateTransferBatch")
     ELSE IF tap.present = "notification" THEN Goto("ValidateNotification")
     ELSE Return(VALIDATION_IMPOSSIBLE)
  /\ UNCHANGED <<validators, validatorVars>>

\* ValidateNotification without the test of fileSequenceNumber
ValidateNotification_NoSequenceNumber ==
  /\ pc = "ValidateNotification"
  /\ IF \/ m_notification.sender = NULL
        \/ m_notification.recipient = NULL
     THEN Return(VALIDATION_IMPOSSIBLE)
     ELSE Return(TAP_VALID)
  /\ UNCHANGED <<validators, validatorVars>>

ValidateNotification ==
  /\ pc = "ValidateNotification"
  /\ IF \/ m_notification.sender = NULL
        \/ m_notification.recipient = NULL
        \/ m_notification.fileSequenceNumber = NULL
     THEN Return(VALIDATION_IMPOSSIBLE)
     ELSE Return(TAP_VALID)
  /\ UNCHANGED <<validators, validatorVars>>

ValidateTransferBatch ==
  /\ pc = "ValidateTransferBatch"
  /\ IF m_transferBatch.batchControlInfo = NULL
       THEN CallCreate("CreateTransferBatchRAPFile", TF_BATCH_BATCH_CONTROL_INFO_MISSING, NULL)
     ELSE IF m_transferBatch.accountingInfo = NULL
       THEN CallCreate("CreateTransferBatchRAPFile", TF_BATCH_ACCOUNTING_INFO_MISSING, NULL)
     ELSE IF m_transferBatch.networkInfo = NULL
       THEN CallCreate("CreateTransferBatchRAPFile", TF_BATCH_NETWORK_INFO_MISSING, NULL)
     ELSE IF m_transferBatch.auditControlInfo = NULL
       THEN CallCreate("CreateTransferBatchRAPFile", TF_BATCH_AUDIT_CONTROL_INFO_MISSING, NULL)
     ELSE Goto("ValidateBatchControlInfo")
  /\ UNCHANGED <<validators, validatorVars>>

\* a section validator returned TAP_VALID to ValidateTransferBatch, which
\* goes on with the next one (or returns TAP_VALID after the last)
ValidThen(next) == IF next = "done" THEN Return(TAP_VALID) ELSE Goto(next)

ValidateBatchControlInfo ==
  /\ pc = "ValidateBatchControlInfo"
  /\ validators' = Append(validators, "BatchControlInfo")
  /\ LET bci == Deref(m_transferBatch.batchControlInfo)
     IN IF bci.sender = NULL \/ bci.recipient = NULL \/ bci.fileSequenceNumber = NULL
          THEN Return(VALIDATION_IMPOSSIBLE)
        ELSE IF bci.fileAvailableTimeStamp = NULL
          THEN CallCreate("CreateBatchControlInfoRAPFile",
                          BATCH_CTRL_FILE_AVAIL_TIMESTAMP_MISSING, NULL)
        ELSE IF bci.specificationVersionNumber = NULL
          THEN CallCreate("CreateBatchControlInfoRAPFile", BATCH_CTRL_SPEC_VERSION_MISSING, NULL)
        ELSE IF bci.transferCutOffTimeStamp = NULL
          THEN CallCreate("CreateBatchControlInfoRAPFile",
                          BATCH_CTRL_TRANSFER_CUTOFF_MISSING, NULL)
        ELSE ValidThen("ValidateAccountingInfo")
  /\ UNCHANGED validatorVars

\* the currency conversion loop without exchangeRateCodes.insert
RECURSIVE CurrencyConversionCheck_NoInsert(_, _, _)
CurrencyConversionCheck_NoInsert(list, i, exchangeRateCodes) ==
  IF i > Len(list) THEN ""
  ELSE IF list[i].exchangeRateCode = NULL THEN CURRENCY_CONVERSION_EXRATE_CODE_MISSING
  ELSE IF list[i].numberOfDecimalPlaces = NULL
    THEN CURRENCY_CONVERSION_NUM_OF_DEC_PLACES_MISSING
  ELSE IF list[i].exchangeRate = NULL THEN CURRENCY_CONVERSION_EXCHANGE_RATE_MISSING
  ELSE IF Deref(list[i].exchangeRateCode) \in exchangeRateCodes
    THEN CURRENCY_CONVERSION_EXRATE_CODE_DUPLICATION
  ELSE CurrencyConversionCheck_NoInsert(list, i + 1, exchangeRateCodes)

\* the currency conversion loop testing exchangeRate before
\* numberOfDecimalPlaces
RECURSIVE CurrencyConversionCheck_RateFirst(_, _, _)
CurrencyConversionCheck_RateFirst(list, i, exchangeRateCodes) ==
  IF i > Len(list) THEN ""
  ELSE IF list[i].exchangeRateCode = NULL THEN CURRENCY_CONVERSION_EXRATE_CODE_MISSING
  ELSE IF list[i].exchangeRate = NULL THEN CURRENCY_CONVERSION_EXCHANGE_RATE_MISSING
  ELSE IF list[i].numberOfDecimalPlaces = NULL
    THEN CURRENCY_CONVERSION_NUM_OF_DEC_PLACES_MISSING
  ELSE IF Deref(list[i].exchangeRateCode) \in exchangeRateCodes
    THEN CURRENCY_CONVERSION_EXRATE_CODE_DUPLICATION
  ELSE CurrencyConversionCheck_RateFirst(list, i + 1,
         exchangeRateCodes \cup {Deref(list[i].exchangeRateCode)})

\* the currency conversion loop from entry i on, seen the codes inserted so
\* far: the error code of the first failing check, or "" when the loop ends
RECURSIVE CurrencyConversionCheck(_, _, _)
CurrencyConversionCheck(list, i, exchangeRateCodes) ==
  IF i > Len(list) THEN ""
  ELSE IF list[i].exchangeRateCode = NULL THEN CURRENCY_CONVERSION_EXRATE_CODE_MISSING
  ELSE IF list[i].numberOfDecimalPlaces = NULL
    THEN CURRENCY_CONVERSION_NUM_OF_DEC_PLACES_MISSING
  ELSE IF list[i].exchangeRate = NULL THEN CURRENCY_CONVERSION_EXCHANGE_RATE_MISSING
  ELSE IF Deref(list[i].exchangeRateCode) \in exchangeRateCodes
    THEN CURRENCY_CONVERSION_EXRATE_CODE_DUPLICATION
  ELSE CurrencyConversionCheck(list, i + 1,
                               exchangeRateCodes \cup {Deref(list[i].exchangeRateCode)})

\* ValidateAccountingInfo requiring taxation whether or not the batch
\* contains taxes
ValidateAccountingInfo_TaxationAlwaysRequired ==
  /\ pc = "ValidateAccountingInfo"
  /\ validators' = Append(validators, "AccountingInfo")
  /\ LET ai == Deref(m_transferBatch.accountingInfo)
         taxes == BatchContainsTaxes(m_transferBatch)
         discounts == BatchContainsDiscounts(m_transferBatch)
         charges == BatchContainsPositiveCharges(m_transferBatch)
         ccCode == IF ai.currencyConversionInfo = NULL THEN ""
                   ELSE CurrencyConversionCheck(Deref(ai.currencyConversionInfo), 1, {})
     IN IF ai.localCurrency = NULL
          THEN CallCreate("CreateAccountingInfoRAPFile", ACCOUNTING_LOCAL_CURRENCY_MISSING, NULL)
        ELSE IF ai.tapDecimalPlaces = NULL
          THEN CallCreate("CreateAccountingInfoRAPFile",
                          ACCOUNTING_TAP_DECIMAL_PLACES_MISSING, NULL)
        ELSE IF ai.taxation = NULL
          THEN CallCreate("CreateAccountingInfoRAPFile", ACCOUNTING_TAXATION_MISSING, NULL)
        ELSE IF ai.discounting = NULL /\ discounts = SEGV THEN Crash({"segv"})
        ELSE IF ai.discounting = NULL /\ discounts = "T"
          THEN CallCreate("CreateAccountingInfoRAPFile", ACCOUNTING_DISCOUNTING_MISSING, NULL)
        ELSE IF ai.currencyConversionInfo = NULL /\ charges = SEGV THEN Crash({"segv"})
        ELSE IF ai.currencyConversionInfo = NULL /\ charges = "T"
          THEN CallCreate("CreateAccountingInfoRAPFile",
                          ACCOUNTING_CURRENCY_CONVERSION_MISSING, NULL)
        ELSE IF ccCode # ""
          THEN CallCreate("CreateAccountingInfoRAPFile", ccCode, Ptr("CurrencyConversionList"))
        ELSE ValidThen("ValidateNetworkInfo")
  /\ UNCHANGED validatorVars

ValidateAccountingInfo ==
  /\ pc = "ValidateAccountingInfo"
  /\ validators' = Append(validators, "AccountingInfo")
  /\ LET ai == Deref(m_transferBatch.accountingInfo)
         taxes == BatchContainsTaxes(m_transferBatch)
         discounts == BatchContainsDiscounts(m_transferBatch)
         charges == BatchContainsPositiveCharges(m_transferBatch)
         ccCode == IF ai.currencyConversionInfo = NULL THEN ""
                   ELSE CurrencyConversionCheck(Deref(ai.currencyConversionInfo), 1, {})
     IN IF ai.localCurrency = NULL
          THEN CallCreate("CreateAccountingInfoRAPFile", ACCOUNTING_LOCAL_CURRENCY_MISSING, NULL)
        ELSE IF ai.tapDecimalPlaces = NULL
          THEN CallCreate("CreateAccountingInfoRAPFile",
                          ACCOUNTING_TAP_DECIMAL_PLACES_MISSING, NULL)
        ELSE IF ai.taxation = NULL /\ taxes = SEGV THEN Crash({"segv"})
        ELSE IF ai.taxation = NULL /\ taxes = "T"
          THEN CallCreate("CreateAccountingInfoRAPFile", ACCOUNTING_TAXATION_MISSING, NULL)
        ELSE IF ai.discounting = NULL /\ discounts = SEGV THEN Crash({"segv"})
        ELSE IF ai.discounting = NULL /\ discounts = "T"
          THEN CallCreate("CreateAccountingInfoRAPFile", ACCOUNTING_DISCOUNTING_MISSING, NULL)
        ELSE IF ai.currencyConversionInfo = NULL /\ charges = SEGV THEN Crash({"segv"})
        ELSE IF ai.currencyConversionInfo = NULL /\ charges = "T"
          THEN CallCreate("CreateAccountingInfoRAPFile",
                          ACCOUNTING_CURRENCY_CONVERSION_MISSING, NULL)
        ELSE IF ccCode # ""
          THEN CallCreate("CreateAccountingInfoRAPFile", ccCode, Ptr("CurrencyConversionList"))
        ELSE ValidThen("ValidateNetworkInfo")
  /\ UNCHANGED validatorVars

\* ValidateNetworkInfo testing recEntityInfo before utcTimeOffsetInfo
ValidateNetworkInfo_RecEntityFirst ==
  /\ pc = "ValidateNetworkInfo"
  /\ validators' = Append(validators, "NetworkInfo")
  /\ LET ni == Deref(m_transferBatch.networkInfo)
     IN IF ni.recEntityInfo = NULL
          THEN CallCreate("CreateNetworkInfoRAPFile", NETWORK_REC_ENTITY_MISSING, NULL)
        ELSE IF ni.utcTimeOffsetInfo = NULL
          THEN CallCreate("CreateNetworkInfoRAPFile", NETWORK_UTC_TIMEOFFSET_MISSING, NULL)
        ELSE ValidThen("ValidateAuditControlInfo")
  /\ UNCHANGED validatorVars

ValidateNetworkInfo ==
  /\ pc = "ValidateNetworkInfo"
  /\ validators' = Append(validators, "NetworkInfo")
  /\ LET ni == Deref(m_transferBatch.networkInfo)
     IN IF ni.utcTimeOffsetInfo = NULL
          THEN CallCreate("CreateNetworkInfoRAPFile", NETWORK_UTC_TIMEOFFSET_MISSING, NULL)
        ELSE IF ni.recEntityInfo = NULL
          THEN CallCreate("CreateNetworkInfoRAPFile", NETWORK_REC_ENTITY_MISSING, NULL)
        ELSE ValidThen("ValidateAuditControlInfo")
  /\ UNCHANGED validatorVars

ValidateAuditControlInfo ==
  /\ pc = "ValidateAuditControlInfo"
  /\ validators' = Append(validators, "AuditControlInfo")
  /\ LET aci == Deref(m_transferBatch.auditControlInfo)
     IN IF aci.totalCharge = NULL
          THEN CallCreate("CreateAuditControlInfoRAPFile", AUDIT_CTRL_TOTAL_CHARGE_MISSING, NULL)
        ELSE IF aci.totalTaxValue = NULL
          THEN CallCreate("CreateAuditControlInfoRAPFile",
                          AUDIT_CTRL_TOTAL_TAX_VALUE_MISSING, NULL)
        ELSE IF aci.totalDiscountValue = NULL
          THEN CallCreate("CreateAuditControlInfoRAPFile",
                          AUDIT_CTRL_TOTAL_DISCOUNT_MISSING, NULL)
        ELSE IF aci.callEventDetailsCount = NULL
          THEN CallCreate("CreateAuditControlInfoRAPFile", AUDIT_CTRL_CALL_COUNT_MISSING, NULL)
        ELSE IF m_transferBatch.callEventDetails = NULL THEN Crash({"segv"})
        ELSE IF Deref(aci.callEventDetailsCount) # Len(Deref(m_transferBatch.callEventDetails))
          THEN CallCreate("CreateAuditControlInfoRAPFile", CALL_COUNT_MISMATCH,
                          Ptr("CallEventDetailsCount"))
        ELSE ValidThen("done")
  /\ UNCHANGED validatorVars

\* ------------------------------------------------------ return-detail factory
\* one ErrorContext: pathItemId = tags[0] >> 2 of the structure, and its level
ErrorContext(name, itemLevel) == [pathItemId |-> TagNumber(name), itemLevel |-> itemLevel]

\* the sections' members a ReturnDetail mirrors, and those set back to NULL
\* before the ReturnBatch is freed
BatchControlMirrorFields ==
  {"sender", "recipient", "fileAvailableTimeStamp", "fileCreationTimeStamp",
   "transferCutOffTimeStamp", "fileSequenceNumber", "fileTypeIndicator",
   "operatorSpecInformation", "rapFileSequenceNumber", "releaseVersionNumber",
   "specificationVersionNumber"}
BatchControlSeveredFields ==
  {"sender", "recipient", "fileAvailableTimeStamp", "fileCreationTimeStamp",
   "transferCutOffTimeStamp", "fileSequenceNumber", "fileTypeIndicator",
   "operatorSpecInformation", "rapFileSequenceNumber", "releaseVersionNumber",
   "specificationVersionNumber"}
AccountingMirrorFields ==
  {"currencyConversionInfo", "discounting", "localCurrency", "tapCurrency",
   "tapDecimalPlaces", "taxation"}
AccountingSeveredFields ==
  {"currencyConversionInfo", "discounting", "localCurrency", "tapCurrency",
   "tapDecimalPlaces", "taxation"}
NetworkMirrorFields == {"recEntityInfo", "utcTimeOffsetInfo"}
NetworkSeveredFields == {"recEntityInfo", "utcTimeOffsetInfo"}
AuditControlMirrorFields ==
  {"callEventDetailsCount", "earliestCallTimeStamp", "latestCallTimeStamp",
   "operatorSpecInformation", "totalAdvisedChargeValueList", "totalCharge",
   "totalChargeRefund", "totalDiscountRefund", "totalDiscountValue", "totalTaxRefund",
   "totalTaxValue"}
AuditControlSeveredFields ==
  {"callEventDetailsCount", "earliestCallTimeStamp", "latestCallTimeStamp",
   "operatorSpecInformation", "totalAdvisedChargeValueList", "totalCharge",
   "totalChargeRefund", "totalDiscountRefund", "totalDiscountValue", "totalTaxRefund",
   "totalTaxValue"}

\* the shallow projection: each mirrored member holds the TAP's own pointer
Mirror(fields, section) == [f \in fields |-> section[f]]

\* how the statements before rapFile.CreateRAPFile(...) can kill the process,
\* in program order: batchControlInfo->fileSequenceNumber->buf is read first;
\* the asserts abort a build that keeps them, and a build that drops them
\* reads ->buf through the NULL pointer instead
HeaderFaults(tb, assertsRecipient) ==
  IF tb.batchControlInfo = NULL THEN {"segv"}
  ELSE LET bci == Deref(tb.batchControlInfo)
       IN IF bci.fileSequenceNumber = NULL THEN {"segv"}
          ELSE IF bci.sender = NULL THEN {"assert", "segv"}
          ELSE IF bci.recipient = NULL
            THEN (IF assertsRecipient THEN {"assert", "segv"} ELSE {"segv"})
          ELSE IF bci.fileAvailableTimeStamp = NULL THEN {"assert", "segv"}
          ELSE IF Deref(bci.fileAvailableTimeStamp).localTimeStamp = NULL THEN {"segv"}
          ELSE {}

\* the arguments of rapFile.CreateRAPFile(returnBatch, returnDetail, sender,
\* recipient, tapAvailableStamp, fileTypeIndicator, m_rapFileID, m_rapSequenceNum)
CreateRAPFileArgs(bci) ==
  [sender |-> Deref(bci.sender),
   recipient |-> Deref(bci.recipient),
   tapAvailableStamp |-> Deref(Deref(bci.fileAvailableTimeStamp).localTimeStamp),
   fileTypeIndicator |-> IF bci.fileTypeIndicator # NULL THEN Deref(bci.fileTypeIndicator)
                         ELSE ""]

FatalReturn(fileSequenceNumber, member, mirror, errorCode, errorContext) ==
  [present |-> "fatalReturn",
   fileSequenceNumber |-> fileSequenceNumber,
   member |-> member,
   mirror |-> mirror,
   errorDetail |-> <<[errorCode |-> errorCode, errorContext |-> errorContext]>>]

\* calloc(1, sizeof(ReturnBatch))
EmptyReturnBatch ==
  [rapBatchControlInfoRap |->
     [sender |-> "", recipient |-> "", rapFileSequenceNumber |-> "",
      rapFileCreationTimeStamp |-> [localTimeStamp |-> NULL, utcTimeOffset |-> NULL],
      rapFileAvailableTimeStamp |-> [localTimeStamp |-> NULL, utcTimeOffset |-> NULL],
      tapDecimalPlaces |-> NULL,
      rapSpecificationVersionNumber |-> 0, rapReleaseVersionNumber |-> 0,
      specificationVersionNumber |-> NULL, releaseVersionNumber |-> NULL,
      fileTypeIndicator |-> NULL],
   returnDetails |-> <<>>,
   rapAuditControlInfo |-> [totalSevereReturnValue |-> <<>>, returnDetailsCount |-> 0]]

\* the part every Create*RAPFile shares once its ReturnDetail is built
EnterCreateRAPFile(detail, assertsRecipient) ==
  LET faults == HeaderFaults(m_transferBatch, assertsRecipient)
  IN IF faults # {}
       THEN /\ Crash(faults)
            /\ UNCHANGED <<returnDetail, returnBatch, args>>
     ELSE /\ returnDetail' = Ptr(detail)
          /\ returnBatch' = Ptr(EmptyReturnBatch)
          /\ args' = CreateRAPFileArgs(Deref(m_transferBatch.batchControlInfo))
          /\ pc' = "CreateRAPFile"
          /\ UNCHANGED <<result, crash, call>>

createVars == <<tap, m_rapFileID, m_rapSequenceNum, validators, alloc, loadResult,
                steps, catalogue, disk, ftp, ftpSetting, freed, octetString, validateCalls>>

\* fileSequenceNumber of the TAP, read through two pointers (guarded by
\* HeaderFaults in every use)
TapFileSequenceNumber ==
  IF m_transferBatch.batchControlInfo = NULL THEN ""
  ELSE IF Deref(m_transferBatch.batchControlInfo).fileSequenceNumber = NULL THEN ""
  ELSE Deref(Deref(m_transferBatch.batchControlInfo).fileSequenceNumber)

TransferBatchErrorContext == <<ErrorContext("TransferBatch", 1)>>

CreateTransferBatchRAPFile ==
  /\ pc = "CreateTransferBatchRAPFile"
  /\ EnterCreateRAPFile(
       FatalReturn(TapFileSequenceNumber, "transferBatchError", <<>>,
                   call.errorCode, TransferBatchErrorContext),
       TRUE)
  /\ UNCHANGED createVars

BatchControlErrorContext ==
  <<ErrorContext("TransferBatch", 1), ErrorContext("BatchControlInfo", 2)>>

CreateBatchControlInfoRAPFile ==
  /\ pc = "CreateBatchControlInfoRAPFile"
  /\ EnterCreateRAPFile(
       FatalReturn(TapFileSequenceNumber, "batchControlError",
                   Mirror(BatchControlMirrorFields, Deref(m_transferBatch.batchControlInfo)),
                   call.errorCode, BatchControlErrorContext),
       TRUE)
  /\ UNCHANGED createVars

AccountingInfoErrorContext(level3item) ==
  <<ErrorContext("TransferBatch", 1), ErrorContext("AccountingInfo", 2)>>
    \o (IF level3item # NULL THEN <<ErrorContext(Deref(level3item), 3)>> ELSE <<>>)

CreateAccountingInfoRAPFile ==
  /\ pc = "CreateAccountingInfoRAPFile"
  /\ EnterCreateRAPFile(
       FatalReturn(TapFileSequenceNumber, "accountingInfoError",
                   Mirror(AccountingMirrorFields, Deref(m_transferBatch.accountingInfo)),
                   call.errorCode, AccountingInfoErrorContext(call.level3item)),
       TRUE)
  /\ UNCHANGED createVars

NetworkInfoErrorContext ==
  <<ErrorContext("TransferBatch", 1), ErrorContext("NetworkInfo", 2)>>

CreateNetworkInfoRAPFile ==
  /\ pc = "CreateNetworkInfoRAPFile"
  /\ EnterCreateRAPFile(
       FatalReturn(TapFileSequenceNumber, "networkInfoError",
                   Mirror(NetworkMirrorFields, Deref(m_transferBatch.networkInfo)),
                   call.errorCode, NetworkInfoErrorContext),
       TRUE)
  /\ UNCHANGED createVars

\* the audit control error context with the second element taken from
\* asn_DEF_AccountingInfo
AuditControlInfoErrorContext_AccountingTag(level3item) ==
  <<ErrorContext("TransferBatch", 1), ErrorContext("AccountingInfo", 2)>>
    \o (IF level3item # NULL THEN <<ErrorContext(Deref(level3item), 3)>> ELSE <<>>)

AuditControlInfoErrorContext(level3item) ==
  <<ErrorContext("TransferBatch", 1), ErrorContext("AuditControlInfo", 2)>>
    \o (IF level3item # NULL THEN <<ErrorContext(Deref(level3item), 3)>> ELSE <<>>)

\* its second assert tests sender again, so recipient is not asserted
CreateAuditControlInfoRAPFile ==
  /\ pc = "CreateAuditControlInfoRAPFile"
  /\ EnterCreateRAPFile(
       FatalReturn(TapFileSequenceNumber, "auditControlInfoError",
                   Mirror(AuditControlMirrorFields, Deref(m_transferBatch.auditControlInfo)),
                   call.errorCode, AuditControlInfoErrorContext(call.level3item)),
       FALSE)
  /\ UNCHANGED createVars

\* ----------------------------------------------------------- RAP file emitter
\* what BILLING.TAP3.CreateRAPFileByTAPLoader may deliver
Allocations ==
  {[filename |-> "RC" \o q, rapSequenceNum |-> q, roamingHubName |-> "HUB",
    timeStamp |-> "20161101130000", utcOffset |-> "+0300",
    tapVersion |-> 3, tapRelease |-> 12, rapVersion |-> 1, rapRelease |-> 5,
    tapDecimalPlaces |-> 2, rapFileID |-> IF q = "00001" THEN 101 ELSE 102] :
   q \in {"00001", "00002"}}

\* what LoadReturnBatchToDB may return
LoadResults == {-1, 0}

\* the roaming hub's FTP settings the configuration may hold
FtpServers == {"", "ftp.hub"}
FtpPorts == {"", "2121"}

\* CreateRAPFile up to the catalogue load: the allocation call, the header,
\* the append of the return detail and the audit control info
CreateRAPFile ==
  /\ pc = "CreateRAPFile"
  /\ \E a \in Allocations :
       /\ alloc' = a
       /\ m_rapSequenceNum' = a.rapSequenceNum
       /\ m_rapFileID' = a.rapFileID
       /\ returnBatch' =
            Ptr([rapBatchControlInfoRap |->
                   [sender |-> args.sender,
                    recipient |-> args.recipient,
                    rapFileSequenceNumber |-> a.rapSequenceNum,
                    rapFileCreationTimeStamp |->
                      [localTimeStamp |-> Ptr(a.timeStamp), utcTimeOffset |-> Ptr(a.utcOffset)],
                    rapFileAvailableTimeStamp |->
                      [localTimeStamp |-> Ptr(a.timeStamp), utcTimeOffset |-> Ptr(a.utcOffset)],
                    tapDecimalPlaces |-> Ptr(a.tapDecimalPlaces),
                    rapSpecificationVersionNumber |-> a.rapVersion,
                    rapReleaseVersionNumber |-> a.rapRelease,
                    specificationVersionNumber |-> Ptr(a.tapVersion),
                    releaseVersionNumber |-> Ptr(a.tapRelease),
                    fileTypeIndicator |-> IF args.fileTypeIndicator # ""
                                          THEN Ptr(args.fileTypeIndicator) ELSE NULL],
                 returnDetails |-> Append(Deref(returnBatch).returnDetails, Deref(returnDetail)),
                 rapAuditControlInfo |->
                   [totalSevereReturnValue |-> OctetString_fromInt64(Int64Zero, 0).octets,
                    returnDetailsCount |-> 1]])
  /\ steps' = steps \o <<"allocate", "header", "append">>
  /\ pc' = "LoadReturnBatchToDB"
  /\ UNCHANGED <<tap, result, crash, validators, call, returnDetail, args, loadResult,
                 catalogue, disk, ftp, ftpSetting, freed, octetString, validateCalls>>

\* the load with EncodeAndUpload called whatever it returned
LoadReturnBatchToDB_EncodeAnyway ==
  /\ pc = "LoadReturnBatchToDB"
  /\ \E r \in LoadResults :
       /\ loadResult' = r
       /\ catalogue' = IF r >= 0
                       THEN Append(catalogue, [fileID |-> m_rapFileID,
                                               filename |-> alloc.filename,
                                               status |-> OUTFILE_CREATED_AND_SENT])
                       ELSE catalogue
       /\ pc' = "EncodeAndUpload"
  /\ steps' = Append(steps, "load")
  /\ UNCHANGED <<tap, result, crash, m_rapFileID, m_rapSequenceNum, validators, call,
                 returnDetail, returnBatch, args, alloc, disk, ftp, ftpSetting, freed,
                 octetString, validateCalls>>

\* loadResult = LoadReturnBatchToDB(returnBatch, rapFileID, filename,
\* OUTFILE_CREATED_AND_SENT); if (loadResult >= 0) EncodeAndUpload(...)
LoadReturnBatchToDB ==
  /\ pc = "LoadReturnBatchToDB"
  /\ \E r \in LoadResults :
       /\ loadResult' = r
       /\ catalogue' = IF r >= 0
                       THEN Append(catalogue, [fileID |-> m_rapFileID,
                                               filename |-> alloc.filename,
                                               status |-> OUTFILE_CREATED_AND_SENT])
                       ELSE catalogue
       /\ pc' = IF r >= 0 THEN "EncodeAndUpload" ELSE "ReturnFromCreateRAPFile"
  /\ steps' = Append(steps, "load")
  /\ UNCHANGED <<tap, result, crash, m_rapFileID, m_rapSequenceNum, validators, call,
                 returnDetail, returnBatch, args, alloc, disk, ftp, ftpSetting, freed,
                 octetString, validateCalls>>

\* EncodeAndUpload taking the catalogue row back when the file cannot be
\* opened or encoded
EncodeAndUpload_RowWithdrawn ==
  /\ pc = "EncodeAndUpload"
  /\ \E outcome \in {"open fails", "encode fails", "encoded"} :
       IF outcome = "open fails"
         THEN /\ loadResult' = TL_FILEERROR
              /\ pc' = "ReturnFromCreateRAPFile"
              /\ steps' = Append(steps, "open")
              /\ catalogue' = SubSeq(catalogue, 1, Len(catalogue) - 1)
              /\ UNCHANGED disk
       ELSE IF outcome = "encode fails"
         THEN /\ loadResult' = TL_DECODEERROR
              /\ pc' = "ReturnFromCreateRAPFile"
              /\ steps' = steps \o <<"open", "encode">>
              /\ catalogue' = SubSeq(catalogue, 1, Len(catalogue) - 1)
              /\ disk' = Append(disk, [filename |-> alloc.filename, encoded |-> NULL])
       ELSE /\ pc' = "UploadFileToFtp"
            /\ steps' = steps \o <<"open", "encode">>
            /\ disk' = Append(disk, [filename |-> alloc.filename, encoded |-> returnBatch])
            /\ UNCHANGED <<loadResult, catalogue>>
  /\ UNCHANGED <<tap, result, crash, m_rapFileID, m_rapSequenceNum, validators, call,
                 returnDetail, returnBatch, args, alloc, ftp, ftpSetting, freed,
                 octetString, validateCalls>>

\* EncodeAndUpload up to the upload: fopen, der_encode, fclose
EncodeAndUpload ==
  /\ pc = "EncodeAndUpload"
  /\ \E outcome \in {"open fails", "encode fails", "encoded"} :
       IF outcome = "open fails"
         THEN /\ loadResult' = TL_FILEERROR
              /\ pc' = "ReturnFromCreateRAPFile"
              /\ steps' = Append(steps, "open")
              /\ UNCHANGED disk
       ELSE IF outcome = "encode fails"
         THEN /\ loadResult' = TL_DECODEERROR
              /\ pc' = "ReturnFromCreateRAPFile"
              /\ steps' = steps \o <<"open", "encode">>
              /\ disk' = Append(disk, [filename |-> alloc.filename, encoded |-> NULL])
       ELSE /\ pc' = "UploadFileToFtp"
            /\ steps' = steps \o <<"open", "encode">>
            /\ disk' = Append(disk, [filename |-> alloc.filename, encoded |-> returnBatch])
            /\ UNCHANGED loadResult
  /\ UNCHANGED <<tap, result, crash, m_rapFileID, m_rapSequenceNum, validators, call,
                 returnDetail, returnBatch, args, alloc, catalogue, ftp, ftpSetting, freed,
                 octetString, validateCalls>>

\* UploadFileToFtp returning TRUE for every exit code and exception
UploadFileToFtpCall_AlwaysTrue(setting, outcome) ==
  [invoked |-> [ftpServer |-> setting.ftpServer,
                ftpPort |-> IF setting.ftpPort = "" THEN "21" ELSE setting.ftpPort,
                outcome |-> outcome],
   returned |-> TRUE]

\* UploadFileToFtp(filename, fullFileName, ftpSetting): an empty port
\* becomes "21", ncftpput is invoked, and a non-zero exit code or an
\* exception makes it return false
UploadFileToFtpCall(setting, outcome) ==
  [invoked |-> [ftpServer |-> setting.ftpServer,
                ftpPort |-> IF setting.ftpPort = "" THEN "21" ELSE setting.ftpPort,
                outcome |-> outcome],
   returned |-> outcome = "exit 0"]

\* the rest of EncodeAndUpload: GetFTPSetting and, with a server set,
\* UploadFileToFtp, whose failure is TL_FILEERROR
UploadFileToFtp ==
  /\ pc = "UploadFileToFtp"
  /\ \E ftpServer \in FtpServers, ftpPort \in FtpPorts :
       LET setting == [ftpServer |-> ftpServer, ftpPort |-> ftpPort]
       IN /\ ftpSetting' = Ptr(setting)
          /\ IF ftpServer # ""
               THEN \E outcome \in {"exit 0", "exit 1", "exception"} :
                      LET upload == UploadFileToFtpCall(setting, outcome)
                      IN /\ ftp' = Append(ftp, [ftpServer |-> upload.invoked.ftpServer,
                                                ftpPort |-> upload.invoked.ftpPort,
                                                filename |-> alloc.filename,
                                                outcome |-> upload.invoked.outcome])
                         /\ loadResult' = IF upload.returned THEN TL_OK ELSE TL_FILEERROR
                         /\ steps' = Append(steps, "upload")
               ELSE /\ loadResult' = TL_OK
                    /\ UNCHANGED <<ftp, steps>>
  /\ pc' = "ReturnFromCreateRAPFile"
  /\ UNCHANGED <<tap, result, crash, m_rapFileID, m_rapSequenceNum, validators, call,
                 returnDetail, returnBatch, args, alloc, catalogue, disk, freed, octetString, validateCalls>>

\* the members set back to NULL, taxation left in the accountingInfo mirror
SeveredFields_TaxationKept(member) ==
  CASE member = "transferBatchError" -> {}
    [] member = "batchControlError" -> BatchControlSeveredFields
    [] member = "accountingInfoError" -> AccountingSeveredFields \ {"taxation"}
    [] member = "networkInfoError" -> NetworkSeveredFields
    [] member = "auditControlInfoError" -> AuditControlSeveredFields

\* the members of the mirror a Create*RAPFile sets back to NULL
SeveredFields(member) ==
  CASE member = "transferBatchError" -> {}
    [] member = "batchControlError" -> BatchControlSeveredFields
    [] member = "accountingInfoError" -> AccountingSeveredFields
    [] member = "networkInfoError" -> NetworkSeveredFields
    [] member = "auditControlInfoError" -> AuditControlSeveredFields

\* what the caller of Create*RAPFile makes of its return value
ResultOfCreate(errorCode, createRapRes) ==
  IF errorCode \in {TF_BATCH_ACCOUNTING_INFO_MISSING, TF_BATCH_NETWORK_INFO_MISSING,
                    TF_BATCH_AUDIT_CONTROL_INFO_MISSING}
    THEN FATAL_ERROR
  ELSE IF createRapRes >= 0 THEN FATAL_ERROR ELSE VALIDATION_IMPOSSIBLE

\* CreateRAPFile returns loadResult; Create*RAPFile clears the copied
\* pointers, frees the ReturnBatch (with everything still reachable from
\* it) and returns; the validator maps the value and Validate returns
ReturnFromCreateRAPFile ==
  /\ pc = "ReturnFromCreateRAPFile"
  /\ LET detail == Deref(returnDetail)
         severed == [f \in DOMAIN detail.mirror |->
                       IF f \in SeveredFields(detail.member) THEN NULL ELSE detail.mirror[f]]
     IN /\ freed' = freed \cup {f \in DOMAIN severed : severed[f] # NULL}
        /\ Return(ResultOfCreate(call.errorCode, loadResult))
  /\ returnDetail' = NULL
  /\ returnBatch' = NULL
  /\ UNCHANGED <<tap, m_rapFileID, m_rapSequenceNum, validators, args, alloc, loadResult,
                 steps, catalogue, disk, ftp, ftpSetting, octetString, validateCalls>>

\* ---------------------------------------------------------------- behaviours
Next ==
  \/ Validate
  \/ ValidateNotification
  \/ ValidateTransferBatch
  \/ ValidateBatchControlInfo
  \/ ValidateAccountingInfo
  \/ ValidateNetworkInfo
  \/ ValidateAuditControlInfo
  \/ CreateTransferBatchRAPFile
  \/ CreateBatchControlInfoRAPFile
  \/ CreateAccountingInfoRAPFile
  \/ CreateNetworkInfoRAPFile
  \/ CreateAuditControlInfoRAPFile
  \/ CreateRAPFile
  \/ LoadReturnBatchToDB
  \/ EncodeAndUpload
  \/ UploadFileToFtp
  \/ ReturnFromCreateRAPFile

Spec == Init /\ [][Next]_vars

\* ------------------------------------- several Validate calls on one object
\* the inputs handed to one TAPValidator in turn: a batch that passes, one
\* for each RAP-creation operation, one whose triple is incomplete, a
\* notification, and neither
SequenceTAPs ==
  {BatchInput(TransferBatch(Ptr(b), a, Ptr(n), Ptr(c), Ptr(<<PlainCall>>))) :
     <<b, a, n, c>> \in
       {<<ValidBCI, Ptr(ValidAI), ValidNI, ValidACI(1)>>,
        <<ValidBCI, NULL, ValidNI, ValidACI(1)>>,
        <<[ValidBCI EXCEPT !.specificationVersionNumber = NULL], Ptr(ValidAI), ValidNI,
          ValidACI(1)>>,
        <<ValidBCI, Ptr([ValidAI EXCEPT !.tapDecimalPlaces = NULL]), ValidNI, ValidACI(1)>>,
        <<ValidBCI, Ptr(ValidAI), [ValidNI EXCEPT !.recEntityInfo = NULL], ValidACI(1)>>,
        <<ValidBCI, Ptr(ValidAI), ValidNI, ValidACI(0)>>,
        <<[ValidBCI EXCEPT !.recipient = NULL], Ptr(ValidAI), ValidNI, ValidACI(1)>>}}
  \cup {DataInterChange("notification", EmptyTransferBatch,
                        [sender |-> Ptr("OPA"), recipient |-> Ptr("OPB"),
                         fileSequenceNumber |-> Ptr("00042")]),
        DataInterChange("NOTHING", EmptyTransferBatch, EmptyNotification)}

InitSequence ==
  /\ tap \in SequenceTAPs
  /\ pc = "Validate"
  /\ octetString = NoOctetString
  /\ Constructed

\* Validate has returned and is called again on the same TAPValidator with
\* another input: the members m_rapFileID and m_rapSequenceNum, the last
\* allocation and the world outside keep what they hold, the locals of the
\* call that returned are gone
ValidateAgain ==
  /\ pc = "done"
  /\ validateCalls + 1 < MaxValidateCalls
  /\ validateCalls' = validateCalls + 1
  /\ tap' \in SequenceTAPs
  /\ pc' = "Validate"
  /\ result' = NO_RESULT
  /\ validators' = <<>>
  /\ call' = NoCall
  /\ args' = NoArgs
  /\ loadResult' = 0
  /\ steps' = <<>>
  /\ ftpSetting' = NULL
  /\ UNCHANGED <<crash, m_rapFileID, m_rapSequenceNum, returnDetail, returnBatch, alloc,
                 catalogue, disk, ftp, freed, octetString>>

NextSequence == Next \/ ValidateAgain

SpecSequence == InitSequence /\ [][NextSequence]_vars

\* ------------------------------------------- OctetString_fromInt64 on its own
\* the octets the sampled values are made of: zero, the largest octet with
\* the high bit clear, the smallest with it set, and all ones
SampleOctets == {0, 127, 128, 255}

\* every 64-bit value whose eight octets are sampled octets
Int64Samples == [1..8 -> SampleOctets]

\* what a read below the scratch may find
GarbageOctets == {0, 127, 128, 255}

InitInt64 ==
  /\ tap = DataInterChange("NOTHING", EmptyTransferBatch, EmptyNotification)
  /\ pc = "OctetString_fromInt64"
  /\ \E v \in Int64Samples : octetString = [value |-> v, outcome |-> NULL]
  /\ Constructed

CallOctetString_fromInt64 ==
  /\ pc = "OctetString_fromInt64"
  /\ \E g \in GarbageOctets :
       octetString' = [octetString EXCEPT
                         !.outcome = Ptr(OctetString_fromInt64(octetString.value, g))]
  /\ pc' = "done"
  /\ UNCHANGED <<tap, result, crash, m_rapFileID, m_rapSequenceNum, validators, call,
                 returnDetail, returnBatch, args, alloc, loadResult, steps, catalogue,
                 disk, ftp, ftpSetting, freed, validateCalls>>

NextInt64 == CallOctetString_fromInt64

SpecInt64 == InitInt64 /\ [][NextInt64]_vars

\* -------------------------------------------- the rules of a transfer batch
\* what the validation rules say of a TransferBatch, stated on the input
\* alone (an absent list holds nothing)
IsTransferBatch == tap.present = "transferBatch"

TriplePresent(tb) ==
  /\ tb.batchControlInfo # NULL
  /\ Deref(tb.batchControlInfo).sender # NULL
  /\ Deref(tb.batchControlInfo).recipient # NULL
  /\ Deref(tb.batchControlInfo).fileSequenceNumber # NULL

\* the first absent section in the order bci, ai, ni, aci ("" when none)
FirstMissingSection(tb) ==
  IF tb.batchControlInfo = NULL THEN TF_BATCH_BATCH_CONTROL_INFO_MISSING
  ELSE IF tb.accountingInfo = NULL THEN TF_BATCH_ACCOUNTING_INFO_MISSING
  ELSE IF tb.networkInfo = NULL THEN TF_BATCH_NETWORK_INFO_MISSING
  ELSE IF tb.auditControlInfo = NULL THEN TF_BATCH_AUDIT_CONTROL_INFO_MISSING
  ELSE ""

ItemsOf(list) == IF list = NULL THEN {} ELSE {Deref(list)[k] : k \in 1..Len(Deref(list))}

\* every ChargeInformation of a call event
ChargeInformationOf(callEvent) ==
  IF callEvent.present \in {"mobileOriginatedCall", "mobileTerminatedCall"}
    THEN UNION {ItemsOf(bsu.chargeInformationList) :
                  bsu \in ItemsOf(callEvent.basicServiceUsedList)}
  ELSE IF callEvent.present = "gprsCall"
    THEN (IF callEvent.gprsServiceUsed = NULL THEN {}
          ELSE ItemsOf(Deref(callEvent.gprsServiceUsed).chargeInformationList))
  ELSE {}

ChargeInformationOfBatch(tb) == UNION {ChargeInformationOf(c) : c \in ItemsOf(tb.callEventDetails)}

HasTaxes(tb) == \E ci \in ChargeInformationOfBatch(tb) : ci.taxInformation # NULL
HasDiscounts(tb) == \E ci \in ChargeInformationOfBatch(tb) : ci.discountInformation # NULL
HasPositiveCharges(tb) ==
  \E ci \in ChargeInformationOfBatch(tb) :
    \E d \in ItemsOf(ci.chargeDetailList) : d.charge # NULL /\ Deref(d.charge) > 0

\* the rules of one currency conversion entry, in the order they are listed
CurrencyConversionRules(list, i) ==
  << <<CURRENCY_CONVERSION_EXRATE_CODE_MISSING, list[i].exchangeRateCode = NULL>>,
     <<CURRENCY_CONVERSION_NUM_OF_DEC_PLACES_MISSING, list[i].numberOfDecimalPlaces = NULL>>,
     <<CURRENCY_CONVERSION_EXCHANGE_RATE_MISSING, list[i].exchangeRate = NULL>>,
     <<CURRENCY_CONVERSION_EXRATE_CODE_DUPLICATION,
       /\ list[i].exchangeRateCode # NULL
       /\ \E j \in 1..(i - 1) : list[j].exchangeRateCode = list[i].exchangeRateCode>> >>

\* every rule of a batch whose four sections are present, in the global
\* order, each with whether the batch violates it
Rules(tb) ==
  LET bci == Deref(tb.batchControlInfo)
      ai == Deref(tb.accountingInfo)
      ni == Deref(tb.networkInfo)
      aci == Deref(tb.auditControlInfo)
      ccl == IF ai.currencyConversionInfo = NULL THEN <<>> ELSE Deref(ai.currencyConversionInfo)
  IN << <<BATCH_CTRL_FILE_AVAIL_TIMESTAMP_MISSING, bci.fileAvailableTimeStamp = NULL>>,
        <<BATCH_CTRL_SPEC_VERSION_MISSING, bci.specificationVersionNumber = NULL>>,
        <<BATCH_CTRL_TRANSFER_CUTOFF_MISSING, bci.transferCutOffTimeStamp = NULL>>,
        <<ACCOUNTING_LOCAL_CURRENCY_MISSING, ai.localCurrency = NULL>>,
        <<ACCOUNTING_TAP_DECIMAL_PLACES_MISSING, ai.tapDecimalPlaces = NULL>>,
        <<ACCOUNTING_TAXATION_MISSING, ai.taxation = NULL /\ HasTaxes(tb)>>,
        <<ACCOUNTING_DISCOUNTING_MISSING, ai.discounting = NULL /\ HasDiscounts(tb)>>,
        <<ACCOUNTING_CURRENCY_CONVERSION_MISSING,
          ai.currencyConversionInfo = NULL /\ HasPositiveCharges(tb)>> >>
     \o Flatten([i \in 1..Len(ccl) |-> CurrencyConversionRules(ccl, i)])
     \o << <<NETWORK_UTC_TIMEOFFSET_MISSING, ni.utcTimeOffsetInfo = NULL>>,
           <<NETWORK_REC_ENTITY_MISSING, ni.recEntityInfo = NULL>>,
           <<AUDIT_CTRL_TOTAL_CHARGE_MISSING, aci.totalCharge = NULL>>,
           <<AUDIT_CTRL_TOTAL_TAX_VALUE_MISSING, aci.totalTaxValue = NULL>>,
           <<AUDIT_CTRL_TOTAL_DISCOUNT_MISSING, aci.totalDiscountValue = NULL>>,
           <<AUDIT_CTRL_CALL_COUNT_MISSING, aci.callEventDetailsCount = NULL>>,
           <<CALL_COUNT_MISMATCH,
             /\ aci.callEventDetailsCount # NULL
             /\ Deref(aci.callEventDetailsCount) # CallCount(tb.callEventDetails)>> >>

\* the code of the first rule the batch violates ("" when it violates none)
FirstViolatedRule(tb) ==
  LET rules == Rules(tb)
      violated == {k \in 1..Len(rules) : rules[k][2]}
  IN IF violated = {} THEN "" ELSE rules[Min(violated)][1]

\* the triple and the four sections are there and no rule is violated
SatisfiesEveryRule(tb) ==
  /\ TriplePresent(tb)
  /\ FirstMissingSection(tb) = ""
  /\ FirstViolatedRule(tb) = ""

\* ------------------------------------------------ what a Validate call did
Returned == pc = "done"
Aborted == pc = "crashed"
EmitterCalls == Cardinality({k \in 1..Len(steps) : steps[k] = "allocate"})
NothingEmitted == steps = <<>> /\ catalogue = <<>> /\ disk = <<>> /\ ftp = <<>>

\* the RAP files written and encoded in full
EncodedRAPs == {Deref(disk[k].encoded) : k \in {j \in 1..Len(disk) : disk[j].encoded # NULL}}

\* the ReturnBatch records built: the one in memory once its header is
\* filled, and the ones encoded to disk
BuiltRAPs ==
  EncodedRAPs \cup (IF returnBatch # NULL /\ EmitterCalls > 0 THEN {Deref(returnBatch)} ELSE {})

\* ------------------------------------------- properties of a Validate call
\* C1: a TransferBatch whose batchControlInfo lacks sender, recipient or
\* fileSequenceNumber makes Validate return VALIDATION_IMPOSSIBLE without
\* any RAP step, whatever else the batch holds or lacks
C1_TripleCheckedFirst ==
  (/\ IsTransferBatch
   /\ m_transferBatch.batchControlInfo # NULL
   /\ ~TriplePresent(m_transferBatch))
  => /\ ~Aborted
     /\ NothingEmitted
     /\ pc \notin {"CreateTransferBatchRAPFile", "CreateRAPFile"}
     /\ Returned => result = VALIDATION_IMPOSSIBLE

\* C2: with a section absent, the first absent one in the order bci, ai,
\* ni, aci is reported by exactly one TransferBatch-scoped RAP whose error
\* context is [TransferBatch], no section validator runs, and Validate
\* returns FATAL_ERROR
C2_FirstMissingSectionReported ==
  (IsTransferBatch /\ FirstMissingSection(m_transferBatch) # "")
  => /\ ~Aborted
     /\ validators = <<>>
     /\ EmitterCalls <= 1
     /\ \A d \in {returnDetail} \ {NULL} :
          /\ Deref(d).member = "transferBatchError"
          /\ Deref(d).errorDetail =
               <<[errorCode |-> FirstMissingSection(m_transferBatch),
                  errorContext |-> <<[pathItemId |-> 1, itemLevel |-> 1]>>]>>
     /\ Returned => (result = FATAL_ERROR /\ EmitterCalls = 1)

\* C3: whenever the emitter was invoked, Validate returns FATAL_ERROR if
\* CreateRAPFile returned a non-negative value and VALIDATION_IMPOSSIBLE
\* if it returned a negative one, TransferBatch-scoped rejections included
C3_ResultFollowsEmitter ==
  (Returned /\ EmitterCalls > 0)
  => /\ loadResult >= 0 => result = FATAL_ERROR
     /\ loadResult < 0 => result = VALIDATION_IMPOSSIBLE

\* C4: the RAP header carries the TAP recipient as its sender, the TAP
\* sender as its recipient, and the allocated sequence number as its
\* rapFileSequenceNumber
C4_SenderRecipientSwapped ==
  \A rap \in BuiltRAPs :
    LET bci == Deref(m_transferBatch.batchControlInfo)
    IN /\ rap.rapBatchControlInfoRap.sender = Deref(bci.recipient)
       /\ rap.rapBatchControlInfoRap.recipient = Deref(bci.sender)
       /\ rap.rapBatchControlInfoRap.rapFileSequenceNumber = m_rapSequenceNum

\* C5: a TransferBatch that satisfies every rule makes Validate return
\* TAP_VALID, and nothing is allocated, loaded, written or uploaded
C5_Soundness ==
  (IsTransferBatch /\ SatisfiesEveryRule(m_transferBatch))
  => /\ ~Aborted
     /\ NothingEmitted
     /\ Returned => result = TAP_VALID

\* C6: a TransferBatch with the identifying triple that violates a rule
\* makes Validate return FATAL_ERROR or VALIDATION_IMPOSSIBLE, never
\* TAP_VALID and never an abort; with FATAL_ERROR there is a RAP holding
\* exactly one returnDetails entry and returnDetailsCount 1
C6_Completeness ==
  (/\ IsTransferBatch
   /\ TriplePresent(m_transferBatch)
   /\ ~SatisfiesEveryRule(m_transferBatch))
  => /\ ~Aborted
     /\ Returned => result \in {FATAL_ERROR, VALIDATION_IMPOSSIBLE}
     /\ (Returned /\ result = FATAL_ERROR) =>
          /\ EmitterCalls = 1
          /\ \A k \in 1..Len(disk) :
               /\ disk[k].encoded # NULL =>
                    /\ Len(Deref(disk[k].encoded).returnDetails) = 1
                    /\ Deref(disk[k].encoded).rapAuditControlInfo.returnDetailsCount = 1

\* the section validators in the order ValidateTransferBatch calls them
ValidatorOrder == <<"BatchControlInfo", "AccountingInfo", "NetworkInfo", "AuditControlInfo">>

\* the section whose rules hold an error code
SectionOfRule(errorCode) ==
  IF errorCode \in {BATCH_CTRL_FILE_AVAIL_TIMESTAMP_MISSING, BATCH_CTRL_SPEC_VERSION_MISSING,
                    BATCH_CTRL_TRANSFER_CUTOFF_MISSING} THEN "BatchControlInfo"
  ELSE IF errorCode \in {NETWORK_UTC_TIMEOFFSET_MISSING, NETWORK_REC_ENTITY_MISSING}
    THEN "NetworkInfo"
  ELSE IF errorCode \in {AUDIT_CTRL_TOTAL_CHARGE_MISSING, AUDIT_CTRL_TOTAL_TAX_VALUE_MISSING,
                         AUDIT_CTRL_TOTAL_DISCOUNT_MISSING, AUDIT_CTRL_CALL_COUNT_MISSING,
                         CALL_COUNT_MISMATCH} THEN "AuditControlInfo"
  ELSE "AccountingInfo"

\* the error codes of the ReturnDetail in memory and of the encoded RAPs
ReportedCodes ==
  {Deref(d).errorDetail[1].errorCode : d \in {returnDetail} \ {NULL}}
  \cup {rap.returnDetails[1].errorDetail[1].errorCode : rap \in EncodedRAPs}

\* C7: with the four sections present the validators run in the order
\* BatchControlInfo, AccountingInfo, NetworkInfo, AuditControlInfo and stop
\* at the first that is not valid: the emitter is invoked at most once, the
\* validator that rejected is the last one run, and the error code of the
\* RAP is that of the first violated rule in the global rule order
C7_RulePriority ==
  (IsTransferBatch /\ FirstMissingSection(m_transferBatch) = "")
  => LET first == FirstViolatedRule(m_transferBatch)
     IN /\ validators = SubSeq(ValidatorOrder, 1, Len(validators))
        /\ EmitterCalls <= 1
        /\ Len(disk) <= 1
        /\ call.errorCode # "" =>
             /\ call.errorCode = first
             /\ validators # <<>>
             /\ validators[Len(validators)] = SectionOfRule(call.errorCode)
        /\ \A code \in ReportedCodes : code = first
        /\ (Returned /\ result = TAP_VALID) => validators = ValidatorOrder

\* a RAP was written for a NetworkInfo rule of a batch that also violates
\* an AuditControlInfo rule, and the AuditControlInfo validator never ran
C7_Witness ==
  /\ IsTransferBatch
  /\ Returned
  /\ result = FATAL_ERROR
  /\ FirstMissingSection(m_transferBatch) = ""
  /\ \E rap \in EncodedRAPs :
       rap.returnDetails[1].errorDetail[1].errorCode = NETWORK_REC_ENTITY_MISSING
  /\ \E k \in 1..Len(Rules(m_transferBatch)) :
       /\ Rules(m_transferBatch)[k][2]
       /\ SectionOfRule(Rules(m_transferBatch)[k][1]) = "AuditControlInfo"
  /\ validators = SubSeq(ValidatorOrder, 1, 3)

\* the application tag of each TAP structure an error context may name
ApplicationTag ==
  [TransferBatch |-> 1, BatchControlInfo |-> 4, AccountingInfo |-> 5, NetworkInfo |-> 6,
   AuditControlInfo |-> 15, CallEventDetailsCount |-> 43, CurrencyConversionList |-> 80]

\* the section a member of FatalReturn reports on ("" for the batch itself)
SectionOfMember ==
  [transferBatchError |-> "", batchControlError |-> "BatchControlInfo",
   accountingInfoError |-> "AccountingInfo", networkInfoError |-> "NetworkInfo",
   auditControlInfoError |-> "AuditControlInfo"]

\* every ReturnDetail built: the one in memory and those of the encoded RAPs
ReturnDetails ==
  {Deref(d) : d \in {returnDetail} \ {NULL}} \cup {rap.returnDetails[1] : rap \in EncodedRAPs}

\* C8: the errorContext of every ReturnDetail a Create*RAPFile builds has
\* 1, 2 or 3 elements, the element at position i has itemLevel i, element 1
\* names the TransferBatch tag, element 2 the tag of the section (absent for
\* a TransferBatch-scoped error), and element 3 is there exactly when a
\* level-3 descriptor was supplied, whose tag it names
C8_ErrorContextShape ==
  \A detail \in ReturnDetails :
    LET errorContext == detail.errorDetail[1].errorContext
        n == Len(errorContext)
        section == SectionOfMember[detail.member]
    IN /\ Len(detail.errorDetail) = 1
       /\ n \in 1..3
       /\ \A i \in 1..n : errorContext[i].itemLevel = i
       /\ errorContext[1].pathItemId = ApplicationTag.TransferBatch
       /\ (n >= 2) <=> (section # "")
       /\ n >= 2 => errorContext[2].pathItemId = ApplicationTag[section]
       /\ (n = 3) <=> (call.level3item # NULL)
       /\ n = 3 => errorContext[3].pathItemId = ApplicationTag[Deref(call.level3item)]

\* a RAP whose error context has three elements, the third naming
\* CallEventDetailsCount under AuditControlInfo, was encoded
C8_Witness ==
  \E rap \in EncodedRAPs :
    /\ rap.returnDetails[1].member = "auditControlInfoError"
    /\ Len(rap.returnDetails[1].errorDetail[1].errorContext) = 3
    /\ rap.returnDetails[1].errorDetail[1].errorContext[3].pathItemId = 43

\* C9: when Validate returns TAP_VALID and currencyConversionInfo is
\* present, every entry has its exchangeRateCode, numberOfDecimalPlaces and
\* exchangeRate, and no two entries share an exchangeRateCode
C9_ValidCurrencyConversion ==
  (/\ IsTransferBatch
   /\ Returned
   /\ result = TAP_VALID
   /\ Deref(m_transferBatch.accountingInfo).currencyConversionInfo # NULL)
  => LET list == Deref(Deref(m_transferBatch.accountingInfo).currencyConversionInfo)
     IN /\ \A i \in 1..Len(list) :
             /\ list[i].exchangeRateCode # NULL
             /\ list[i].numberOfDecimalPlaces # NULL
             /\ list[i].exchangeRate # NULL
        /\ \A i, j \in 1..Len(list) :
             i # j => Deref(list[i].exchangeRateCode) # Deref(list[j].exchangeRateCode)

\* Validate returned TAP_VALID on a currency conversion list of two entries
C9_Witness ==
  /\ IsTransferBatch
  /\ Returned
  /\ result = TAP_VALID
  /\ Deref(m_transferBatch.accountingInfo).currencyConversionInfo # NULL
  /\ Len(Deref(Deref(m_transferBatch.accountingInfo).currencyConversionInfo)) = 2

\* ------------------------------------------------ properties of the emitter
\* the steps of CreateRAPFile in the order they are written
EmitterOrder == <<"allocate", "header", "append", "load", "open", "encode", "upload">>

StepTaken(step) == \E k \in 1..Len(steps) : steps[k] = step

\* CreateRAPFile has returned to its Create*RAPFile
EmitterReturned == steps # <<>> /\ pc \in {"ReturnFromCreateRAPFile", "done"}

\* what became of each step that ran
LoadSucceeded == catalogue # <<>>
FileEncoded == disk # <<>> /\ disk[Len(disk)].encoded # NULL
UploadFailed == ftp # <<>> /\ ftp[Len(ftp)].outcome # "exit 0"

\* C11: CreateRAPFile takes its steps in the order allocation, header
\* fill, append of the return detail, catalogue load, file encode, FTP
\* upload; the file is opened only after a load that returned non-negative
\* and the upload is tried only after the file was opened and encoded; it
\* returns non-negative exactly when every step that ran succeeded
C11_EmitterStepOrder ==
  /\ steps = SubSeq(EmitterOrder, 1, Len(steps))
  /\ StepTaken("load") => Len(steps) >= 4
  /\ StepTaken("open") => LoadSucceeded
  /\ StepTaken("upload") => FileEncoded
  /\ EmitterReturned =>
       /\ StepTaken("load")
       /\ (loadResult >= 0) <=>
            (LoadSucceeded /\ StepTaken("encode") /\ FileEncoded /\ ~UploadFailed)
       /\ (~LoadSucceeded \/ ~StepTaken("encode") \/ ~FileEncoded \/ UploadFailed)
            => loadResult < 0

\* CreateRAPFile returned non-negative after all seven steps, upload included
C11_Witness ==
  /\ EmitterReturned
  /\ steps = EmitterOrder
  /\ loadResult >= 0
  /\ ftp # <<>>

\* ------------------------------------------ properties of the other inputs
IsNotification == tap.present = "notification"

NotificationTriplePresent ==
  /\ tap.notification.sender # NULL
  /\ tap.notification.recipient # NULL
  /\ tap.notification.fileSequenceNumber # NULL

\* C12: for a Notification Validate returns TAP_VALID when sender,
\* recipient and fileSequenceNumber are all present and
\* VALIDATION_IMPOSSIBLE otherwise; for an input that is neither a
\* TransferBatch nor a Notification it returns VALIDATION_IMPOSSIBLE; the
\* RAP emitter is invoked in none of these cases
C12_NotificationAndOthers ==
  ~IsTransferBatch
  => /\ ~Aborted
     /\ NothingEmitted
     /\ validators = <<>>
     /\ pc \in {"Validate", "ValidateNotification", "done"}
     /\ Returned =>
          result = IF IsNotification /\ NotificationTriplePresent
                   THEN TAP_VALID ELSE VALIDATION_IMPOSSIBLE

\* Validate returned TAP_VALID for a Notification
C12_Witness == IsNotification /\ Returned /\ result = TAP_VALID

\* ------------------------------------------ properties of the section rules
\* the five group rules of AccountingInfo in the order they are listed,
\* each with whether the batch violates it
AccountingGroupRules(tb) ==
  LET ai == Deref(tb.accountingInfo)
  IN << <<ACCOUNTING_LOCAL_CURRENCY_MISSING, ai.localCurrency = NULL>>,
        <<ACCOUNTING_TAP_DECIMAL_PLACES_MISSING, ai.tapDecimalPlaces = NULL>>,
        <<ACCOUNTING_TAXATION_MISSING, ai.taxation = NULL /\ HasTaxes(tb)>>,
        <<ACCOUNTING_DISCOUNTING_MISSING, ai.discounting = NULL /\ HasDiscounts(tb)>>,
        <<ACCOUNTING_CURRENCY_CONVERSION_MISSING,
          ai.currencyConversionInfo = NULL /\ HasPositiveCharges(tb)>> >>

AccountingGroupCodes ==
  {ACCOUNTING_LOCAL_CURRENCY_MISSING, ACCOUNTING_TAP_DECIMAL_PLACES_MISSING,
   ACCOUNTING_TAXATION_MISSING, ACCOUNTING_DISCOUNTING_MISSING,
   ACCOUNTING_CURRENCY_CONVERSION_MISSING}

FirstOf(rules) ==
  LET violated == {k \in 1..Len(rules) : rules[k][2]}
  IN IF violated = {} THEN "" ELSE rules[Min(violated)][1]

\* the validator that ran as the n-th faulted before it could return
ValidatorFaulted(n) == Aborted /\ call.errorCode = "" /\ Len(validators) = n

\* C13: ValidateAccountingInfo reports the first violated rule in the
\* order localCurrency, tapDecimalPlaces, taxation (when the batch contains
\* taxes), discounting (when it contains discounts), currencyConversionInfo
\* (when it contains a positive charge); a missing group whose predicate is
\* false is not reported; and with tapDecimalPlaces absent the positive
\* charge predicate is never evaluated: one of the first two rules fires
C13_AccountingRuleOrder ==
  (IsTransferBatch /\ Len(validators) >= 2)
  => LET first == FirstOf(AccountingGroupRules(m_transferBatch))
     IN /\ ~ValidatorFaulted(2) =>
             IF first # "" THEN call.errorCode = first
             ELSE call.errorCode \notin AccountingGroupCodes
        /\ Deref(m_transferBatch.accountingInfo).tapDecimalPlaces = NULL =>
             /\ ~ValidatorFaulted(2)
             /\ call.errorCode \in {ACCOUNTING_LOCAL_CURRENCY_MISSING,
                                    ACCOUNTING_TAP_DECIMAL_PLACES_MISSING}

\* taxation and discounting are both absent, the batch contains discounts
\* but no taxes, and ACCOUNTING_DISCOUNTING_MISSING was reported
C13_Witness ==
  /\ IsTransferBatch
  /\ Returned
  /\ m_transferBatch.accountingInfo # NULL
  /\ Deref(m_transferBatch.accountingInfo).taxation = NULL
  /\ Deref(m_transferBatch.accountingInfo).discounting = NULL
  /\ ~HasTaxes(m_transferBatch)
  /\ call.errorCode = ACCOUNTING_DISCOUNTING_MISSING

\* the rules of BatchControlInfo in the order they are listed
BatchControlRules(tb) ==
  LET bci == Deref(tb.batchControlInfo)
  IN << <<BATCH_CTRL_FILE_AVAIL_TIMESTAMP_MISSING, bci.fileAvailableTimeStamp = NULL>>,
        <<BATCH_CTRL_SPEC_VERSION_MISSING, bci.specificationVersionNumber = NULL>>,
        <<BATCH_CTRL_TRANSFER_CUTOFF_MISSING, bci.transferCutOffTimeStamp = NULL>> >>

\* C14: with the four sections and the triple present, the first missing
\* of fileAvailableTimeStamp, specificationVersionNumber and
\* transferCutOffTimeStamp is reported by a BatchControl-scoped RAP with
\* its code and the context [TransferBatch, BatchControlInfo], also when
\* the missing field is fileAvailableTimeStamp
C14_BatchControlRuleOrder ==
  (/\ IsTransferBatch
   /\ FirstMissingSection(m_transferBatch) = ""
   /\ TriplePresent(m_transferBatch)
   /\ FirstOf(BatchControlRules(m_transferBatch)) # "")
  => /\ ~Aborted
     /\ Len(validators) <= 1
     /\ \A detail \in ReturnDetails :
          /\ detail.member = "batchControlError"
          /\ detail.errorDetail =
               <<[errorCode |-> FirstOf(BatchControlRules(m_transferBatch)),
                  errorContext |-> <<[pathItemId |-> 1, itemLevel |-> 1],
                                     [pathItemId |-> 4, itemLevel |-> 2]>>]>>
     /\ Returned => EmitterCalls = 1

CurrencyConversionCodes ==
  {CURRENCY_CONVERSION_EXRATE_CODE_MISSING, CURRENCY_CONVERSION_NUM_OF_DEC_PLACES_MISSING,
   CURRENCY_CONVERSION_EXCHANGE_RATE_MISSING, CURRENCY_CONVERSION_EXRATE_CODE_DUPLICATION}

\* the currency conversion list of a batch that has one
CurrencyConversionList(tb) == Deref(Deref(tb.accountingInfo).currencyConversionInfo)

\* the rules of every entry, entry after entry
CurrencyListRules(list) == Flatten([i \in 1..Len(list) |-> CurrencyConversionRules(list, i)])

\* ValidateAccountingInfo ran on a batch that passes the group rules and
\* has a currency conversion list
CurrencyListExamined ==
  /\ IsTransferBatch
  /\ Len(validators) >= 2
  /\ ~ValidatorFaulted(2)
  /\ FirstOf(AccountingGroupRules(m_transferBatch)) = ""
  /\ Deref(m_transferBatch.accountingInfo).currencyConversionInfo # NULL

\* C15: the entries of currencyConversionInfo are examined in list order
\* and, within an entry, in the order exchangeRateCode missing,
\* numberOfDecimalPlaces missing, exchangeRate missing, exchangeRateCode
\* duplicated; the first failing check of the earliest failing entry is the
\* code reported, with the context [TransferBatch, AccountingInfo,
\* CurrencyConversionList], whether or not the batch has positive charges
C15_CurrencyEntryOrder ==
  CurrencyListExamined
  => LET first == FirstOf(CurrencyListRules(CurrencyConversionList(m_transferBatch)))
     IN IF first = "" THEN call.errorCode \notin CurrencyConversionCodes
        ELSE /\ call.errorCode = first
             /\ \A detail \in ReturnDetails :
                  /\ detail.member = "accountingInfoError"
                  /\ detail.errorDetail =
                       <<[errorCode |-> first,
                          errorContext |-> <<[pathItemId |-> 1, itemLevel |-> 1],
                                             [pathItemId |-> 5, itemLevel |-> 2],
                                             [pathItemId |-> 80, itemLevel |-> 3]>>]>>

\* in a batch without positive charges the second of three entries repeats
\* the code of the first, the third lacks its code, and a RAP reporting
\* the duplication was encoded
C15_Witness ==
  /\ CurrencyListExamined
  /\ ~HasPositiveCharges(m_transferBatch)
  /\ LET list == CurrencyConversionList(m_transferBatch)
     IN /\ Len(list) = 3
        /\ list[2] = list[1]
        /\ list[3].exchangeRateCode = NULL
  /\ \E rap \in EncodedRAPs :
       rap.returnDetails[1].errorDetail[1].errorCode =
         CURRENCY_CONVERSION_EXRATE_CODE_DUPLICATION

\* the rules of auditControlInfo, in the order they are listed; a batch
\* without callEventDetails has no call events
AuditControlRules(tb) ==
  LET aci == Deref(tb.auditControlInfo)
      actual == IF tb.callEventDetails = NULL THEN 0 ELSE Len(Deref(tb.callEventDetails))
  IN << <<AUDIT_CTRL_TOTAL_CHARGE_MISSING, aci.totalCharge = NULL>>,
        <<AUDIT_CTRL_TOTAL_TAX_VALUE_MISSING, aci.totalTaxValue = NULL>>,
        <<AUDIT_CTRL_TOTAL_DISCOUNT_MISSING, aci.totalDiscountValue = NULL>>,
        <<AUDIT_CTRL_CALL_COUNT_MISSING, aci.callEventDetailsCount = NULL>>,
        <<CALL_COUNT_MISMATCH,
          aci.callEventDetailsCount # NULL /\ Deref(aci.callEventDetailsCount) # actual>> >>

\* what ValidateAuditControlInfo is to do for the first violated rule
AuditControlVerdict(first) ==
  IF first = ""
    THEN /\ call.errorCode = ""
         /\ Returned => result = TAP_VALID
    ELSE /\ call.errorCode = first
         /\ call.level3item =
              (IF first = CALL_COUNT_MISMATCH THEN Ptr("CallEventDetailsCount") ELSE NULL)
         /\ \A detail \in ReturnDetails :
              /\ detail.member = "auditControlInfoError"
              /\ detail.errorDetail =
                   <<[errorCode |-> first,
                      errorContext |->
                        <<[pathItemId |-> 1, itemLevel |-> 1],
                          [pathItemId |-> 15, itemLevel |-> 2]>>
                        \o (IF first = CALL_COUNT_MISMATCH
                              THEN <<[pathItemId |-> 43, itemLevel |-> 3]>> ELSE <<>>)]>>

\* C16: ValidateAuditControlInfo reports the first missing of totalCharge,
\* totalTaxValue, totalDiscountValue and callEventDetailsCount with the
\* context [TransferBatch, AuditControlInfo]; with all four present it
\* compares callEventDetailsCount with the number of call events of the
\* batch: a difference is reported as CALL_COUNT_MISMATCH with the context
\* [TransferBatch, AuditControlInfo, CallEventDetailsCount], and equality
\* makes the batch TAP_VALID
C16_AuditControlRuleOrder ==
  (IsTransferBatch /\ Len(validators) = 4)
  => /\ ~ValidatorFaulted(4)
     /\ AuditControlVerdict(FirstOf(AuditControlRules(m_transferBatch)))

\* the outcome of a predicate that returns the boolean b
Returns(b) == IF b THEN "T" ELSE "F"

\* C17: BatchContainsTaxes, BatchContainsDiscounts and
\* BatchContainsPositiveCharges never fail: on every TransferBatch, also one
\* whose callEventDetails, or a call's basicServiceUsedList,
\* gprsServiceUsed, chargeInformationList or chargeDetailList, is absent,
\* each returns a boolean, true exactly when a ChargeInformation of the
\* batch matches, an absent list counting as empty; so the validator that
\* consults them never faults
C17_PredicatesNeverFail ==
  (IsTransferBatch /\ Len(validators) >= 2)
  => /\ ~ValidatorFaulted(2)
     /\ BatchContainsTaxes(m_transferBatch) = Returns(HasTaxes(m_transferBatch))
     /\ BatchContainsDiscounts(m_transferBatch) = Returns(HasDiscounts(m_transferBatch))
     /\ Deref(m_transferBatch.accountingInfo).tapDecimalPlaces # NULL
          => BatchContainsPositiveCharges(m_transferBatch)
               = Returns(HasPositiveCharges(m_transferBatch))

\* C18: in EncodeAndUpload the upload is attempted exactly when the file
\* was written and the FTP host of the roaming hub is non-empty; with an
\* empty host the operation returns TL_OK and nothing is uploaded; with a
\* host, an empty port is replaced by "21", and a non-zero exit code or an
\* exception of the upload makes the operation return a failure code
C18_UploadOnlyWithHost ==
  /\ ftpSetting = NULL => ftp = <<>>
  /\ ftpSetting # NULL =>
       LET setting == Deref(ftpSetting)
       IN /\ FileEncoded
          /\ StepTaken("upload") <=> setting.ftpServer # ""
          /\ setting.ftpServer = "" => ftp = <<>> /\ loadResult = TL_OK
          /\ setting.ftpServer # "" =>
               /\ Len(ftp) = 1
               /\ ftp[1].ftpServer = setting.ftpServer
               /\ ftp[1].filename = disk[Len(disk)].filename
               /\ ftp[1].ftpPort = (IF setting.ftpPort = "" THEN "21" ELSE setting.ftpPort)
               /\ ftp[1].outcome = "exit 0" => loadResult = TL_OK
               /\ ftp[1].outcome # "exit 0" => loadResult = TL_FILEERROR /\ loadResult < 0

\* with a host and no port configured, the upload to port 21 threw, and
\* Validate returned after the emitter's failure
C18_Witness ==
  /\ Returned
  /\ ftpSetting = Ptr([ftpServer |-> "ftp.hub", ftpPort |-> ""])
  /\ ftp # <<>>
  /\ ftp[1].ftpPort = "21"
  /\ ftp[1].outcome = "exception"
  /\ loadResult = TL_FILEERROR
  /\ result = VALIDATION_IMPOSSIBLE

\* the catalogue holds the one row of this RAP file, marked as sent
RowMarkedSent ==
  /\ Len(catalogue) = 1
  /\ catalogue[1].filename = alloc.filename
  /\ catalogue[1].status = OUTFILE_CREATED_AND_SENT

\* C19: the catalogue row is written with status OUTFILE_CREATED_AND_SENT
\* before the RAP file is opened or encoded and before any upload is
\* tried, and no later step changes the row, whatever becomes of the file
\* and of the upload
C19_CatalogueRowWrittenFirst ==
  /\ [](catalogue # <<>> => RowMarkedSent)
  /\ []((StepTaken("open") \/ StepTaken("encode") \/ StepTaken("upload") \/ disk # <<>>
         \/ ftp # <<>>) => RowMarkedSent)
  /\ [][catalogue # <<>> => catalogue' = catalogue]_vars

\* the load succeeded, the row says the file was sent, and CreateRAPFile
\* returned a negative value after the open, the encoding or the upload
\* failed
C19_Witness ==
  /\ EmitterReturned
  /\ RowMarkedSent
  /\ loadResult < 0
  /\ \/ ~StepTaken("encode")
     \/ ~FileEncoded
     \/ UploadFailed

\* the members of the ReturnDetail in memory that hold a pointer of the TAP
AliasedFields ==
  IF returnDetail = NULL THEN {}
  ELSE {f \in DOMAIN Deref(returnDetail).mirror : Deref(returnDetail).mirror[f] # NULL}

\* C20: Validate leaves the decoded TAP unchanged: the members a
\* section-scoped Create*RAPFile copies into the ReturnDetail are the
\* members it sets back to NULL before the ReturnBatch is freed, whatever
\* CreateRAPFile returned, so no member of the TAP is ever freed, and no
\* step modifies the TAP
C20_TAPLeftUnchanged ==
  /\ [](freed = {})
  /\ [](returnDetail # NULL =>
          /\ DOMAIN Deref(returnDetail).mirror = SeveredFields(Deref(returnDetail).member)
          /\ AliasedFields \subseteq SeveredFields(Deref(returnDetail).member))
  /\ [][tap' = tap]_vars
  /\ [][(returnDetail # NULL /\ returnDetail' = NULL) => freed' = freed]_vars

\* Validate returned after an accountingInfo-scoped RAP whose mirror held
\* the batch's localCurrency and taxation, CreateRAPFile having failed
C20_Witness ==
  /\ Returned
  /\ IsTransferBatch
  /\ call.errorCode = ACCOUNTING_TAP_DECIMAL_PLACES_MISSING
  /\ Deref(m_transferBatch.accountingInfo).localCurrency # NULL
  /\ Deref(m_transferBatch.accountingInfo).taxation # NULL
  /\ StepTaken("load")
  /\ loadResult < 0
  /\ result = VALIDATION_IMPOSSIBLE
  /\ returnDetail = NULL
  /\ freed = {}

\* the five RAP-creation operations
CreateOperations ==
  {"CreateTransferBatchRAPFile", "CreateBatchControlInfoRAPFile",
   "CreateAccountingInfoRAPFile", "CreateNetworkInfoRAPFile",
   "CreateAuditControlInfoRAPFile"}

\* what the assertions of a RAP-creation operation require of the batch
AssertedHeader(tb) ==
  /\ tb.batchControlInfo # NULL
  /\ Deref(tb.batchControlInfo).sender # NULL
  /\ Deref(tb.batchControlInfo).recipient # NULL
  /\ Deref(tb.batchControlInfo).fileAvailableTimeStamp # NULL

\* C21: every assertion of the Create*RAPFile operations holds on every
\* path by which Validate reaches it: no Validate call enters a
\* RAP-creation operation on a batch whose batchControlInfo, or its sender,
\* recipient or fileAvailableTimeStamp, is absent, and no assertion fails
C21_AssertionsHold ==
  /\ pc \in CreateOperations => AssertedHeader(m_transferBatch)
  /\ crash # "assert"

\* ---------------------------------- properties of a sequence of Validate calls
GetRapFileID == m_rapFileID
GetRapSequenceNum == m_rapSequenceNum

\* no catalogue allocation was delivered to this TAPValidator yet
NothingAllocated == alloc = NoAlloc

\* C22: over a sequence of Validate calls on one TAPValidator, GetRapFileID
\* and GetRapSequenceNum return 0 and the empty string until the first RAP
\* emission and afterwards the id and sequence number of the most recent
\* catalogue allocation; they change at an allocation only, so a later call
\* that emits no RAP leaves them describing the RAP of an earlier input
C22_RapFileOfLastAllocation ==
  /\ [](NothingAllocated => GetRapFileID = 0 /\ GetRapSequenceNum = "")
  /\ [](~NothingAllocated =>
          /\ GetRapFileID = alloc.rapFileID
          /\ GetRapSequenceNum = alloc.rapSequenceNum)
  /\ [][(m_rapFileID' # m_rapFileID \/ m_rapSequenceNum' # m_rapSequenceNum)
          => /\ pc = "CreateRAPFile"
             /\ alloc' \in Allocations
             /\ m_rapFileID' = alloc'.rapFileID
             /\ m_rapSequenceNum' = alloc'.rapSequenceNum]_vars
  /\ [][alloc' # alloc => pc = "CreateRAPFile"]_vars

\* the second call found its input valid and emitted nothing, and the
\* getters still return the RAP file of the first call
C22_Witness ==
  /\ validateCalls = 1
  /\ Returned
  /\ result = TAP_VALID
  /\ steps = <<>>
  /\ GetRapFileID = 102
  /\ GetRapSequenceNum = "00002"
  /\ catalogue # <<>>

\* ---------------------------------------------- properties of the encoding
\* the 64-bit value a big-endian two's-complement octet string denotes
SignExtend(octets) ==
  [k \in 1..8 |->
     IF k <= 8 - Len(octets)
       THEN (IF octets[1] >= 128 THEN 255 ELSE 0)
       ELSE octets[k - (8 - Len(octets))]]

\* the call has returned for a value in 0 .. 2^63 - 1
EncodedNonNegative ==
  /\ octetString.outcome # NULL
  /\ ~IsNegative64(octetString.value)

\* 1..8 octets were emitted and they decode to the value
MinimalRoundTrip(out) ==
  /\ ~out.thrown
  /\ out.outside = {}
  /\ out.length = Len(out.octets)
  /\ out.length \in 1..8
  /\ SignExtend(out.octets) = octetString.value

\* removing the first octet leaves a next octet with the high bit set
NextOctetHighBit(out) == Len(out.octets) >= 2 /\ out.octets[2] >= 128

\* C10 as stated: for 0 <= v < 2^63 the encoder emits 1..8 octets that
\* decode to v, and the first octet is 0x00 exactly when removing it would
\* leave a next octet with the high bit set
C10_AsStated ==
  EncodedNonNegative =>
    LET out == Deref(octetString.outcome)
    IN /\ MinimalRoundTrip(out)
       /\ (out.octets[1] = 0) <=> NextOctetHighBit(out)

\* the most significant non-zero octet of a non-zero value
LeadingOctet(v) == v[Min({k \in 1..8 : v[k] # 0})]

\* C10: for 0 <= v < 2^63 the encoder emits 1..8 octets that decode to v,
\* and the first octet is 0x00 exactly when v = 0 (the single octet 0x00)
\* or the most significant non-zero octet of v has its high bit set; in
\* the latter case that octet follows the 0x00, so a leading 0x00 in
\* front of an octet with the high bit clear is never emitted
C10_MinimalEncoding ==
  EncodedNonNegative =>
    LET out == Deref(octetString.outcome)
        v == octetString.value
    IN /\ MinimalRoundTrip(out)
       /\ (out.octets[1] = 0) <=> (IsZero64(v) \/ LeadingOctet(v) >= 128)
       /\ (out.octets[1] = 0 /\ ~IsZero64(v)) => NextOctetHighBit(out)

\* a non-negative value was encoded with a leading 0x00 in front of an
\* octet whose high bit is set
C10_Witness ==
  /\ EncodedNonNegative
  /\ ~IsZero64(octetString.value)
  /\ Deref(octetString.outcome).octets[1] = 0
  /\ NextOctetHighBit(Deref(octetString.outcome))

\* C23: for every signed 64-bit input, negative values included,
\* OctetString_fromInt64 either throws the 8-byte overflow or finishes with
\* its scratch index inside 0..7 and a length inside 1..8, and it never
\* reads or writes the scratch outside indices 0..7
C23_ScratchInBounds ==
  octetString.outcome # NULL =>
    LET out == Deref(octetString.outcome)
    IN /\ out.outside = {}
       /\ ~out.thrown =>
            /\ out.i \in 0..7
            /\ out.length \in 1..8
            /\ Len(out.octets) = out.length

============================================================================
